---- MODULE Spec2Model ----
(***************************************************************************)
(* Verification model of the SN106 validator (v0idai/SN106):               *)
(*   - the pool-weight allocator  (calculatePoolWeightsWithReservedPools)   *)
(*   - the position scorer        (calculatePoolwiseNFTEmissions)           *)
(*   - the u16 weight scaling     (setWeightsOnSubtensor)                   *)
(*   - the validator run          (runValidator)                            *)
(*                                                                         *)
(* JavaScript numbers are modelled as exact rationals <<n, d>> (d > 0,     *)
(* reduced) extended with the IEEE specials +Infinity = <<1, 0>>,          *)
(* -Infinity = <<-1, 0>> and NaN = <<0, 0>>.  Floating-point rounding of   *)
(* finite values is not modelled.  JavaScript objects are modelled as      *)
(* sequences of <<key, value>> pairs in insertion order.                   *)
(***************************************************************************)
EXTENDS Integers, Sequences, FiniteSets, TLC

(***************************************************************************)
(* Numbers                                                                 *)
(***************************************************************************)
Abs(x) == IF x < 0 THEN -x ELSE x

Sgn(x) == IF x < 0 THEN -1 ELSE IF x > 0 THEN 1 ELSE 0

RECURSIVE GCD(_, _)
GCD(a, b) == IF b = 0 THEN a ELSE GCD(b, a % b)

Norm(n, d) ==
  IF d = 0 THEN <<Sgn(n), 0>>
  ELSE LET g == GCD(Abs(n), Abs(d))
           s == IF d < 0 THEN -1 ELSE 1
       IN  <<(s * n) \div g, (s * d) \div g>>

NaN == <<0, 0>>
Infinity == <<1, 0>>
Zero == <<0, 1>>
One == <<1, 1>>
Int2F(i) == <<i, 1>>

IsNaN(a) == a = NaN
isFinite(a) == a[2] # 0

FAdd(a, b) ==
  IF IsNaN(a) \/ IsNaN(b) THEN NaN
  ELSE IF a[2] = 0 /\ b[2] = 0 THEN (IF a[1] = b[1] THEN a ELSE NaN)
  ELSE IF a[2] = 0 THEN a
  ELSE IF b[2] = 0 THEN b
  ELSE LET g == GCD(a[2], b[2])
       IN  Norm(a[1] * (b[2] \div g) + b[1] * (a[2] \div g), (a[2] \div g) * b[2])

FNeg(a) == <<-a[1], a[2]>>

FSub(a, b) == FAdd(a, FNeg(b))

FMul(a, b) ==
  IF a[1] = 0 \/ b[1] = 0 \/ a[2] = 0 \/ b[2] = 0 THEN Norm(a[1] * b[1], a[2] * b[2])
  ELSE LET g1 == GCD(Abs(a[1]), b[2])
           g2 == GCD(Abs(b[1]), a[2])
       IN  Norm((a[1] \div g1) * (b[1] \div g2), (a[2] \div g2) * (b[2] \div g1))

FDiv(a, b) ==
  IF b[1] = 0 \/ b[2] = 0 \/ a[2] = 0
    THEN Norm(a[1] * b[2] * (IF b[1] < 0 THEN -1 ELSE 1), a[2] * Abs(b[1]))
    ELSE FMul(a, <<Sgn(b[1]) * b[2], Abs(b[1])>>)

\* a > b, a >= b, ... with IEEE semantics: every comparison with NaN is false
FGt(a, b) ==
  /\ ~IsNaN(a) /\ ~IsNaN(b)
  /\ IF a[2] = 0 \/ b[2] = 0
       THEN (IF a[2] = 0 /\ b[2] = 0 THEN a[1] > b[1]
             ELSE IF a[2] = 0 THEN a[1] > 0 ELSE b[1] < 0)
       ELSE a[1] * b[2] > b[1] * a[2]

FGe(a, b) == ~IsNaN(a) /\ ~IsNaN(b) /\ (a = b \/ FGt(a, b))
FLt(a, b) == FGt(b, a)
FLe(a, b) == FGe(b, a)

FMax(a, b) == IF IsNaN(a) \/ IsNaN(b) THEN NaN ELSE IF FGe(a, b) THEN a ELSE b
FMin(a, b) == IF IsNaN(a) \/ IsNaN(b) THEN NaN ELSE IF FLe(a, b) THEN a ELSE b

\* Math.floor of a finite number
Floor(a) == a[1] \div a[2]

\* Math.round of a finite number (halves round towards +Infinity)
Round(a) == ((2 * a[1]) + a[2]) \div (2 * a[2])

(***************************************************************************)
(* Sequence helpers modelling the Array methods the code uses              *)
(***************************************************************************)
RECURSIVE SumInt(_)
SumInt(s) == IF s = <<>> THEN 0 ELSE Head(s) + SumInt(Tail(s))

RECURSIVE SumF(_)
SumF(s) == IF s = <<>> THEN Zero ELSE FAdd(SumF(SubSeq(s, 1, Len(s) - 1)), s[Len(s)])

Range(s) == {s[i] : i \in 1..Len(s)}

\* Array.prototype.indexOf, 1-based; 0 when absent
IndexOf(s, x) == IF \E i \in 1..Len(s) : s[i] = x
                 THEN CHOOSE i \in 1..Len(s) : s[i] = x /\ \A j \in 1..(i - 1) : s[j] # x
                 ELSE 0


(***************************************************************************)
(* JavaScript objects: sequences of <<key, value>> in insertion order      *)
(***************************************************************************)
Keys(obj) == [i \in 1..Len(obj) |-> obj[i][1]]

Values(obj) == [i \in 1..Len(obj) |-> obj[i][2]]

Has(obj, k) == \E i \in 1..Len(obj) : obj[i][1] = k

Get(obj, k) == obj[CHOOSE i \in 1..Len(obj) : obj[i][1] = k][2]

\* obj[k] ?? dflt   (also models  obj[k] || dflt  where dflt is 0)
GetOr(obj, k, dflt) == IF Has(obj, k) THEN Get(obj, k) ELSE dflt

\* obj[k] = v : overwrite in place, or append a new key
Put(obj, k, v) ==
  IF Has(obj, k)
    THEN [i \in 1..Len(obj) |-> IF obj[i][1] = k THEN <<k, v>> ELSE obj[i]]
    ELSE Append(obj, <<k, v>>)

(***************************************************************************)
(* utils/setWeights.ts : setWeightsOnSubtensor, u16 scaling                *)
(***************************************************************************)
U16Max == 65535

burnUid == 0

\* Math.abs(a - b) < 1e-10.  Every rational of the model has a denominator
\* below 2^31 < 1e10, so two of them differ by less than 1e-10 exactly when
\* they are equal.
nearlyEqual(a, b) == isFinite(a) /\ isFinite(b) /\ a = b

\* isFinite(w) && w > 0 ? w : 0
PosOrZero(w) == IF isFinite(w) /\ w[1] > 0 THEN w ELSE Zero

\* position (0-based) of index j in  xs.map((v, idx) => ..).sort((a, b) => b.v - a.v):
\* descending by value, equal values keep their array order (stable sort)
SortedPos(xs, j) ==
  Cardinality({k \in 1..Len(xs) : FGt(xs[k], xs[j]) \/ (xs[k] = xs[j] /\ k < j)})

\* variant: the burn share truncated instead of rounded
desiredBurnIntOf_truncated(burnPercentage) ==
  Floor(FMul(Norm(burnPercentage, 100), Int2F(U16Max)))

desiredBurnIntOf(burnPercentage) == Round(FMul(Norm(burnPercentage, 100), Int2F(U16Max)))

\* lines 88-93 : the real-valued share of every miner index
minerFloatTargetsOf(floatWeights, minerIndices, minerTotalInt, allWeightsZero) ==
  LET minerWeightsSum == SumF([j \in 1..Len(minerIndices) |-> PosOrZero(floatWeights[minerIndices[j]])])
  IN  [j \in 1..Len(minerIndices) |->
         IF allWeightsZero THEN Zero
         ELSE IF minerTotalInt <= 0 THEN Zero
         ELSE IF minerWeightsSum[1] <= 0 \/ ~isFinite(minerWeightsSum) THEN Zero
         ELSE FMul(FDiv(floatWeights[minerIndices[j]], minerWeightsSum), Int2F(minerTotalInt))]

\* lines 95-107 : floors plus one unit for the largest fractional remainders
\* variant: the remainder goes to the first miners in index order
addRemainder_inOrder(floors, fracs, minerRemainder) ==
  [j \in 1..Len(floors) |->
     floors[j] + (IF minerRemainder > 0 /\ j - 1 < minerRemainder THEN 1 ELSE 0)]

\* lines 98-106 : one more unit for the largest fractional parts
addRemainder(floors, fracs, minerRemainder) ==
  [j \in 1..Len(floors) |->
     floors[j] + (IF minerRemainder > 0 /\ SortedPos(fracs, j) < minerRemainder THEN 1 ELSE 0)]

minerFloorsOf(minerFloatTargets, minerTotalInt) ==
  LET floors == [j \in 1..Len(minerFloatTargets) |-> Floor(minerFloatTargets[j])]
  IN  addRemainder(floors,
                   [j \in 1..Len(minerFloatTargets) |->
                      FSub(minerFloatTargets[j], Int2F(Floor(minerFloatTargets[j])))],
                   minerTotalInt - SumInt(floors))

\* lines 142-159 : take `remaining` units away from the miners, largest first
RECURSIVE removeLoop(_, _, _, _, _)
removeLoop(scaled, minerIndices, order3, remaining, t) ==
  LET minersCount == Len(minerIndices) IN
  IF ~(remaining > 0 /\ minersCount > 0) THEN [scaled |-> scaled, remaining |-> remaining]
  ELSE LET uidIdx == minerIndices[order3[(t % minersCount) + 1]]
           hit == scaled[uidIdx] > 0
           scaled2 == IF hit THEN [scaled EXCEPT ![uidIdx] = @ - 1] ELSE scaled
           remaining2 == IF hit THEN remaining - 1 ELSE remaining
       IN  IF (t + 1) > minersCount * 2 /\ remaining2 > 0
             THEN [scaled |-> scaled2, remaining |-> remaining2]
             ELSE removeLoop(scaled2, minerIndices, order3, remaining2, t + 1)

\* lines 115-167 : final rectification of the sum
rectify(scaled, burnIdx, minerIndices, minerFloatTargets, allWeightsZero) ==
  LET minersCount == Len(minerIndices)
      totalScaled == SumInt(scaled)
      delta == U16Max - totalScaled
  IN  IF allWeightsZero THEN scaled
      ELSE IF totalScaled = U16Max THEN scaled
      ELSE IF delta > 0 THEN
        (IF minersCount > 0
           THEN [i \in 1..Len(scaled) |->
                   IF i = burnIdx THEN scaled[i]
                   ELSE LET j == IndexOf(minerIndices, i)
                            r == SortedPos(minerFloatTargets, j)
                        IN  scaled[i] + (delta \div minersCount)
                                      + (IF r < delta % minersCount THEN 1 ELSE 0)]
           ELSE [scaled EXCEPT ![burnIdx] = @ + delta])
      ELSE
        LET weights3 == [j \in 1..minersCount |-> Int2F(scaled[minerIndices[j]])]
            order3 == [p \in 1..minersCount |->
                         CHOOSE j \in 1..minersCount : SortedPos(weights3, j) = p - 1]
            after == removeLoop(scaled, minerIndices, order3, -delta, 0)
            take == IF after.remaining < after.scaled[burnIdx]
                      THEN after.remaining ELSE after.scaled[burnIdx]
        IN  IF after.remaining > 0
              THEN [after.scaled EXCEPT ![burnIdx] = @ - take]
              ELSE after.scaled

\* lines 109-167 : the vector of the burn share and the miners' floors, rectified
scaledOf(uids, burnIdx, minerIndices, desiredBurnInt, minerFloors, minerFloatTargets, allWeightsZero) ==
  rectify([i \in 1..Len(uids) |->
             IF i = burnIdx THEN desiredBurnInt
             ELSE minerFloors[IndexOf(minerIndices, i)]],
          burnIdx, minerIndices, minerFloatTargets, allWeightsZero)

\* lines 75-167 : the scaling once the burn UID is in the vector
scaleWithBurn(uids, burnIdx, minerIndices, allWeightsZero, desiredBurnInt, minerTotalInt, minerFloatTargets) ==
  [ok |-> TRUE, uids |-> uids,
   scaled |-> scaledOf(uids, burnIdx, minerIndices, desiredBurnInt,
                       minerFloorsOf(minerFloatTargets, minerTotalInt), minerFloatTargets,
                       allWeightsZero),
   allWeightsZero |-> allWeightsZero]

\* variant: the hotkey registered at the burn UID takes part in the
\* proportional split and keeps its share on top of the burn share
scaleToU16_burnAsMiner(uids0, floatWeights0, burnPercentage) ==
  LET absent == IndexOf(uids0, burnUid) = 0
      uids == IF absent THEN <<burnUid>> \o uids0 ELSE uids0
      floatWeights == IF absent THEN <<Zero>> \o floatWeights0 ELSE floatWeights0
      burnIdx == IndexOf(uids, burnUid)
      allIndices == [i \in 1..Len(uids) |-> i]
      allWeightsZero == \A i \in 1..Len(floatWeights) : floatWeights[i] = Zero
      desiredBurnInt == IF allWeightsZero THEN 0 ELSE desiredBurnIntOf(burnPercentage)
      minerTotalInt == IF allWeightsZero THEN 0 ELSE U16Max - desiredBurnInt
      floors == minerFloorsOf(minerFloatTargetsOf(floatWeights, allIndices, minerTotalInt,
                                                  allWeightsZero), minerTotalInt)
  IN  [ok |-> TRUE, uids |-> uids,
       scaled |-> [i \in 1..Len(uids) |->
                     floors[i] + (IF i = burnIdx THEN desiredBurnInt ELSE 0)],
       allWeightsZero |-> allWeightsZero]

\* variant: every share truncated, no remainder distributed, no rectification
scaleToU16_truncated(uids0, floatWeights0, burnPercentage) ==
  LET absent == IndexOf(uids0, burnUid) = 0
      uids == IF absent THEN <<burnUid>> \o uids0 ELSE uids0
      floatWeights == IF absent THEN <<Zero>> \o floatWeights0 ELSE floatWeights0
      burnIdx == IndexOf(uids, burnUid)
      minerIndices == SelectSeq([i \in 1..Len(uids) |-> i], LAMBDA i : i # burnIdx)
      allWeightsZero == \A i \in 1..Len(floatWeights) : floatWeights[i] = Zero
      desiredBurnInt == IF allWeightsZero THEN 0 ELSE desiredBurnIntOf(burnPercentage)
      minerTotalInt == IF allWeightsZero THEN 0 ELSE U16Max - desiredBurnInt
      minerFloatTargets == minerFloatTargetsOf(floatWeights, minerIndices, minerTotalInt, allWeightsZero)
  IN  [ok |-> TRUE, uids |-> uids,
       scaled |-> [i \in 1..Len(uids) |->
                     IF i = burnIdx THEN desiredBurnInt
                     ELSE Floor(minerFloatTargets[IndexOf(minerIndices, i)])],
       allWeightsZero |-> allWeightsZero]

\* lines 65-167 : the scaling step, from (uids, floatWeights) to (uids, scaled)
scaleToU16(uids0, floatWeights0, burnPercentage) ==
  LET absent == IndexOf(uids0, burnUid) = 0
      uids == IF absent THEN <<burnUid>> \o uids0 ELSE uids0
      floatWeights == IF absent THEN <<Zero>> \o floatWeights0 ELSE floatWeights0
      burnIdx == IndexOf(uids, burnUid)
      minerIndices == SelectSeq([i \in 1..Len(uids) |-> i], LAMBDA i : i # burnIdx)
      allWeightsZero == \A i \in 1..Len(floatWeights) : floatWeights[i] = Zero
      desiredBurnInt == IF allWeightsZero THEN 0 ELSE desiredBurnIntOf(burnPercentage)
      minerTotalInt == IF allWeightsZero THEN 0 ELSE U16Max - desiredBurnInt
  IN  scaleWithBurn(uids, burnIdx, minerIndices, allWeightsZero, desiredBurnInt,
                    minerTotalInt,
                    minerFloatTargetsOf(floatWeights, minerIndices, minerTotalInt,
                                        allWeightsZero))

\* lines 45-54 : "all non-zero weights are equal (likely an error)" => all zero
zeroIfAllEqual(floatWeights) ==
  LET nonZeroWeights == SelectSeq(floatWeights, LAMBDA w : w[1] > 0)
  IN  IF Len(nonZeroWeights) > 0
         /\ \A i \in 1..Len(nonZeroWeights) :
              nearlyEqual(nonZeroWeights[i], nonZeroWeights[1])
        THEN [i \in 1..Len(floatWeights) |-> Zero]
        ELSE floatWeights

\* variant: a zero or invalid sum falls back to uniform weights
zeroIfNoSum_uniform(floatWeights) ==
  LET sumFloat == SumF(floatWeights)
  IN  IF sumFloat = Zero \/ IsNaN(sumFloat) \/ FLe(sumFloat, Zero) \/ ~isFinite(sumFloat)
        THEN [i \in 1..Len(floatWeights) |-> One]
        ELSE floatWeights

\* lines 56-62 : a zero or invalid sum keeps every weight at zero
zeroIfNoSum(floatWeights) ==
  LET sumFloat == SumF(floatWeights)
  IN  IF sumFloat = Zero \/ IsNaN(sumFloat) \/ FLe(sumFloat, Zero) \/ ~isFinite(sumFloat)
        THEN [i \in 1..Len(floatWeights) |-> Zero]
        ELSE floatWeights

\* lines 22-167 : the vector setWeightsOnSubtensor builds; ok = FALSE when it throws
buildWeightVector(weights, addressToUid, burnPercentage) ==
  LET entries == SelectSeq(weights, LAMBDA e : Has(addressToUid, e[1]))
      uidsE == [i \in 1..Len(entries) |-> Get(addressToUid, entries[i][1])]
      floatsE == [i \in 1..Len(entries) |-> PosOrZero(entries[i][2])]
      empty == Len(uidsE) = 0
      uids == IF empty THEN Values(addressToUid) ELSE uidsE
      floats == IF empty THEN [i \in 1..Len(uids) |-> Zero] ELSE floatsE
  IN  IF Len(uids) = 0
        THEN [ok |-> FALSE, uids |-> <<>>, scaled |-> <<>>, allWeightsZero |-> TRUE]
        ELSE scaleToU16(uids, zeroIfNoSum(zeroIfAllEqual(floats)), burnPercentage)


(***************************************************************************)
(* calculatePoolWeightsWithReservedPools, in its two six-argument forms:   *)
(* the reserved-share allocator (unnamed/part_003) and the chain-split     *)
(* allocator that runValidator calls (unnamed/part_004).                   *)
(*                                                                         *)
(* A pool key "<chain>:<id>" is the pair <<chain, id>>; a position is a    *)
(* record [miner, pool, tickLower, tickUpper, liquidity]; the tick map is  *)
(* an object  pool -> [tick, subnetId].                                    *)
(***************************************************************************)
\* the pools of the positions that have tick data, without repetition, in
\* order of first appearance
RECURSIVE poolsWithTicks(_, _)
poolsWithTicks(positions, currentTickPerPool) ==
  IF positions = <<>> THEN <<>>
  ELSE LET before == poolsWithTicks(SubSeq(positions, 1, Len(positions) - 1), currentTickPerPool)
           pool == positions[Len(positions)].pool
       IN  IF Has(currentTickPerPool, pool) /\ pool \notin Range(before)
             THEN Append(before, pool) ELSE before

\* poolsBySubnet[subnetId] || []
poolsOfSubnet(grouped, currentTickPerPool, subnetId) ==
  SelectSeq(grouped, LAMBDA pool : Get(currentTickPerPool, pool).subnetId = subnetId)

\* Object.keys(poolsBySubnet).map(Number): integer keys come in ascending order
RECURSIVE SortedSeq(_)
SortedSeq(S) ==
  IF S = {} THEN <<>>
  ELSE LET m == CHOOSE x \in S : \A y \in S : x <= y IN <<m>> \o SortedSeq(S \ {m})

subnetIdsOf(grouped, currentTickPerPool) ==
  SortedSeq({Get(currentTickPerPool, grouped[i]).subnetId : i \in 1..Len(grouped)})

\* subnetWeights[id] || 0, where subnetWeights[id] = subnetAlphaPrices[id] || 0
\* is set for the ids of filterNetuids only
subnetWeightOf(subnetAlphaPrices, filterNetuids, id) ==
  IF id \in filterNetuids
    THEN LET a == GetOr(subnetAlphaPrices, id, Zero) IN IF IsNaN(a) THEN Zero ELSE a
    ELSE Zero

RECURSIVE FlatPools(_, _, _)
FlatPools(ids, grouped, currentTickPerPool) ==
  IF ids = <<>> THEN <<>>
  ELSE poolsOfSubnet(grouped, currentTickPerPool, Head(ids))
         \o FlatPools(Tail(ids), grouped, currentTickPerPool)

\* part_003:130 : the subnet-0 reserve, clamped to [0, 1]
zeroShareOf(zeroSubnetPools, reservedZeroSubnetShare) ==
  IF Len(zeroSubnetPools) > 0
    THEN FMax(Zero, FMin(One, reservedZeroSubnetShare)) ELSE Zero

\* variant: the subnet-106 reserve clamped to [0, 1] whatever subnet 0 took
subnet106ShareOf_uncapped(subnet106Pools, zeroShare, reservedSubnet106Share) ==
  IF Len(subnet106Pools) > 0
    THEN FMax(Zero, FMin(One, reservedSubnet106Share)) ELSE Zero

\* part_003:131 : the subnet-106 reserve, clamped to [0, 1 - zeroShare]
subnet106ShareOf(subnet106Pools, zeroShare, reservedSubnet106Share) ==
  IF Len(subnet106Pools) > 0
    THEN FMax(Zero, FMin(FSub(One, zeroShare), reservedSubnet106Share)) ELSE Zero

\* variant: subnet 106 also takes part in the remaining share
nonZeroSubnetIdsOf_with106(subnetIds) == SelectSeq(subnetIds, LAMBDA id : id # 0)

\* part_003:151-153 : the subnets that share the remaining part
nonZeroSubnetIdsOf(subnetIds) == SelectSeq(subnetIds, LAMBDA id : id # 0 /\ id # 106)

\* reserved-share allocator: r0 to subnet 0, r106 to subnet 106, the rest
\* alpha-weighted over the other subnets
calculatePoolWeightsWithReservedPools(positions, currentTickPerPool, subnetAlphaPrices, filterNetuids, reservedZeroSubnetShare, reservedSubnet106Share) ==
  LET grouped == poolsWithTicks(positions, currentTickPerPool)
      zeroSubnetPools == poolsOfSubnet(grouped, currentTickPerPool, 0)
      subnet106Pools == poolsOfSubnet(grouped, currentTickPerPool, 106)
      zeroShare == zeroShareOf(zeroSubnetPools, reservedZeroSubnetShare)
      subnet106Share == subnet106ShareOf(subnet106Pools, zeroShare, reservedSubnet106Share)
      remainingShare == FMax(Zero, FSub(FSub(One, zeroShare), subnet106Share))
      nonZeroSubnetIds == nonZeroSubnetIdsOf(subnetIdsOf(grouped, currentTickPerPool))
      totalAlphaNonZero ==
        SumF([k \in 1..Len(nonZeroSubnetIds) |->
                subnetWeightOf(subnetAlphaPrices, filterNetuids, nonZeroSubnetIds[k])])
      allNonZeroPools == FlatPools(nonZeroSubnetIds, grouped, currentTickPerPool)
      \* lines 134-148 : the reserved part of a pool
      reservedOf(pool) ==
        IF pool \in Range(zeroSubnetPools)
          THEN FDiv(zeroShare, Int2F(Len(zeroSubnetPools)))
        ELSE IF pool \in Range(subnet106Pools) /\ FGt(subnet106Share, Zero)
          THEN FDiv(subnet106Share, Int2F(Len(subnet106Pools)))
        ELSE Zero
      \* lines 157-177 : the part of the remaining share added to a pool
      addedOf(pool) ==
        LET id == Get(currentTickPerPool, pool).subnetId
            pools == poolsOfSubnet(grouped, currentTickPerPool, id)
        IN  IF pool \notin Range(allNonZeroPools) THEN Zero
            ELSE IF FGt(totalAlphaNonZero, Zero)
              THEN FDiv(FMul(FDiv(subnetWeightOf(subnetAlphaPrices, filterNetuids, id),
                                  totalAlphaNonZero),
                             remainingShare),
                        Int2F(Len(pools)))
              ELSE FDiv(remainingShare, Int2F(Len(allNonZeroPools)))
      reservedKeys == zeroSubnetPools
                        \o (IF FGt(subnet106Share, Zero) THEN subnet106Pools ELSE <<>>)
      assigned == reservedKeys
                    \o SelectSeq(allNonZeroPools, LAMBDA pool : pool \notin Range(reservedKeys))
  IN  [k \in 1..Len(assigned) |->
         <<assigned[k], FAdd(reservedOf(assigned[k]), addedOf(assigned[k]))>>]

startsWith(pool, chains) == pool[1] \in chains

\* chain-split allocator: r0 to subnet 0 split between Solana and EVM pools,
\* r106 to the EVM pools of subnet 106, every other pool 0
calculatePoolWeightsChainSplit(positions, currentTickPerPool, subnetAlphaPrices, filterNetuids, reservedZeroSubnetShare, reservedSubnet106Share) ==
  LET grouped == poolsWithTicks(positions, currentTickPerPool)
      subnetIds == subnetIdsOf(grouped, currentTickPerPool)
      allPools == FlatPools(subnetIds, grouped, currentTickPerPool)
      zeroSubnetPools == poolsOfSubnet(grouped, currentTickPerPool, 0)
      solanaSubnet0Pools == SelectSeq(zeroSubnetPools, LAMBDA p : startsWith(p, {"solana"}))
      ethereumSubnet0Pools ==
        SelectSeq(zeroSubnetPools, LAMBDA p : startsWith(p, {"ethereum", "base"}))
      subnet106Pools == poolsOfSubnet(grouped, currentTickPerPool, 106)
      ethereumSubnet106Pools ==
        SelectSeq(subnet106Pools, LAMBDA p : startsWith(p, {"ethereum", "base"}))
      zeroShare == reservedZeroSubnetShare
      hasSolana == Len(solanaSubnet0Pools) > 0
      hasEthereum == Len(ethereumSubnet0Pools) > 0
      solanaSubnet0Share == IF hasSolana /\ hasEthereum THEN FDiv(zeroShare, Int2F(2))
                            ELSE IF hasSolana THEN zeroShare ELSE Zero
      ethereumSubnet0Share == IF hasSolana /\ hasEthereum THEN FDiv(zeroShare, Int2F(2))
                              ELSE IF hasSolana THEN Zero
                              ELSE IF hasEthereum THEN zeroShare ELSE Zero
      ethereumSubnet106Share == IF Len(ethereumSubnet106Pools) > 0
                                  THEN reservedSubnet106Share ELSE Zero
      weightOf(pool) ==
        IF pool \in Range(ethereumSubnet106Pools) /\ FGt(ethereumSubnet106Share, Zero)
          THEN FDiv(ethereumSubnet106Share, Int2F(Len(ethereumSubnet106Pools)))
        ELSE IF pool \in Range(ethereumSubnet0Pools)
          THEN FDiv(ethereumSubnet0Share, Int2F(Len(ethereumSubnet0Pools)))
        ELSE IF pool \in Range(solanaSubnet0Pools)
          THEN FDiv(solanaSubnet0Share, Int2F(Len(solanaSubnet0Pools)))
        ELSE Zero
  IN  [k \in 1..Len(allPools) |-> <<allPools[k], weightOf(allPools[k])>>]

(***************************************************************************)
(* validator/calculations/emissions.ts : scoring and pool-wise emissions   *)
(***************************************************************************)
\* Math.pow(width, 1.2), rounded to one decimal place
Pow12(width) ==
  CASE width = 0 -> Zero
    [] width = 1 -> One
    [] width = 2 -> Norm(23, 10)
    [] width = 3 -> Norm(37, 10)
    [] width = 4 -> Norm(53, 10)
    [] width = 5 -> Norm(69, 10)
    [] width = 6 -> Norm(86, 10)
    [] OTHER -> IF width < 0 THEN NaN ELSE Norm(3 * width, 2)

\* tickData?.tick
findCurrentTick(position, currentTickPerPool) ==
  IF Has(currentTickPerPool, position.pool)
    THEN [defined |-> TRUE, tick |-> Get(currentTickPerPool, position.pool).tick]
    ELSE [defined |-> FALSE, tick |-> 0]

calculateRewardScore(position, currentTick) ==
  LET tickLower == position.tickLower
      tickUpper == position.tickUpper
      width == tickUpper - tickLower
      center == Norm(tickLower + tickUpper, 2)
      diff == FSub(center, Int2F(currentTick))
      distanceFromCenter == <<Abs(diff[1]), diff[2]>>
      widthPenalty == FDiv(One, Pow12(width))
      centerWeight == FDiv(One, FAdd(One, distanceFromCenter))
      baseScore == FMul(widthPenalty, centerWeight)
  IN  FMul(baseScore, Int2F(position.liquidity))

\* one pot shared by the given positions
calculateNFTEmissions(positions, currentTickPerPool, totalReward) ==
  LET scored == [i \in 1..Len(positions) |->
                   LET found == findCurrentTick(positions[i], currentTickPerPool)
                       currentTick == IF found.defined THEN found.tick ELSE 0
                   IN  [pos |-> positions[i], currentTick |-> currentTick,
                        score |-> calculateRewardScore(positions[i], currentTick)]]
      totalScore == SumF([i \in 1..Len(scored) |-> scored[i].score])
  IN  [i \in 1..Len(scored) |->
         [pos |-> scored[i].pos, currentTick |-> scored[i].currentTick,
          score |-> scored[i].score,
          emission |-> IF totalScore = Zero THEN Zero
                       ELSE FMul(FDiv(scored[i].score, totalScore), totalReward)]]

\* Object.keys(poolToPositions): the pools in order of first appearance
RECURSIVE poolsInOrder(_)
poolsInOrder(positions) ==
  IF positions = <<>> THEN <<>>
  ELSE LET before == poolsInOrder(SubSeq(positions, 1, Len(positions) - 1))
           pool == positions[Len(positions)].pool
       IN  IF pool \in Range(before) THEN before ELSE Append(before, pool)

RECURSIVE poolwiseResults(_, _, _, _, _)
poolwiseResults(pools, positions, currentTickPerPool, poolWeights, totalReward) ==
  IF pools = <<>> THEN <<>>
  ELSE LET pool == Head(pools)
           poolReward == FMul(GetOr(poolWeights, pool, Zero), totalReward)
           inPool == SelectSeq(positions, LAMBDA q : q.pool = pool)
           rest == poolwiseResults(Tail(pools), positions, currentTickPerPool,
                                   poolWeights, totalReward)
       IN  IF FLe(poolReward, Zero) THEN rest
           ELSE calculateNFTEmissions(inPool, currentTickPerPool, poolReward) \o rest

calculatePoolwiseNFTEmissions(positions, currentTickPerPool, poolWeights, totalReward) ==
  poolwiseResults(poolsInOrder(positions), positions, currentTickPerPool,
                  poolWeights, totalReward)

(***************************************************************************)
(* validator/index.ts : runValidator's weight policy                       *)
(***************************************************************************)
EMA_ALPHA == Norm(3, 10)

\* 1 / CONFIG.VALIDATOR.EMA_EPSILON
EpsilonInverse == 1000000

\* isFinite(w) && w > EMA_EPSILON
aboveEpsilon(w) == isFinite(w) /\ w[1] > 0 /\ (w[2] \div w[1]) < EpsilonInverse

\* the keys of prev, then the new keys of curr
unionKeys(prev, curr) ==
  Keys(prev) \o SelectSeq(Keys(curr), LAMBDA k : ~Has(prev, k))

\* variant: only the keys of curr are kept
updateEma_currOnly(prev, curr) ==
  LET keys == Keys(curr)
      safe(v) == IF isFinite(v) THEN v ELSE Zero
      nextOf(k) == FAdd(FMul(EMA_ALPHA, safe(GetOr(curr, k, Zero))),
                        FMul(FSub(One, EMA_ALPHA), safe(GetOr(prev, k, Zero))))
  IN  [i \in 1..Len(keys) |->
         <<keys[i], IF isFinite(nextOf(keys[i])) THEN nextOf(keys[i]) ELSE Zero>>]

\* lines 47-59
updateEma(prev, curr) ==
  LET keys == unionKeys(prev, curr)
      safe(v) == IF isFinite(v) THEN v ELSE Zero
      nextOf(k) == FAdd(FMul(EMA_ALPHA, safe(GetOr(curr, k, Zero))),
                        FMul(FSub(One, EMA_ALPHA), safe(GetOr(prev, k, Zero))))
  IN  [i \in 1..Len(keys) |->
         <<keys[i], IF isFinite(nextOf(keys[i])) THEN nextOf(keys[i]) ELSE Zero>>]

\* lines 127-130 : acc[nft.miner] = (acc[nft.miner] || 0) + nft.emission
RECURSIVE aggregateEmissions(_)
aggregateEmissions(nftEmissions) ==
  IF nftEmissions = <<>> THEN <<>>
  ELSE LET acc == aggregateEmissions(SubSeq(nftEmissions, 1, Len(nftEmissions) - 1))
           nft == nftEmissions[Len(nftEmissions)]
           old == GetOr(acc, nft.pos.miner, Zero)
       IN  Put(acc, nft.pos.miner, FAdd(IF IsNaN(old) THEN Zero ELSE old, nft.emission))

\* isFinite(v) && v > 0
isPositive(v) == isFinite(v) /\ v[1] > 0

hasPositiveEmissionOf(raw) == \E i \in 1..Len(raw) : isPositive(raw[i][2])

\* for (const [hotkey, w] of entries) obj[hotkey] = w
RECURSIVE putAll(_, _)
putAll(obj, entries) ==
  IF entries = <<>> THEN obj
  ELSE putAll(Put(obj, Head(entries)[1], Head(entries)[2]), Tail(entries))

emaEligibleOf(raw) == SelectSeq(raw, LAMBDA e : isPositive(e[2]))

\* variant: the policy computes the EMA but the store is written only by a
\* later step, so a run that fails leaves the store as it was
nextEmaOf_unwritten(raw, ema, withEma) == ema

\* variant: the store is updated in every run with EMA enabled
nextEmaOf_everyRun(raw, ema, withEma) ==
  IF withEma THEN updateEma(ema, emaEligibleOf(raw)) ELSE ema

\* lines 135-173 : the next global EMA map
nextEmaOf(raw, ema, withEma) ==
  IF hasPositiveEmissionOf(raw) /\ withEma THEN updateEma(ema, emaEligibleOf(raw)) ELSE ema

\* variant: no zero entry for the registered hotkeys without a weight
minerWeightsOf_noZeros(raw, hotkeys, ema, withEma) ==
  IF ~hasPositiveEmissionOf(raw) THEN <<>>
  ELSE IF withEma
    THEN SelectSeq(nextEmaOf(raw, ema, withEma), LAMBDA e : aboveEpsilon(e[2]))
  ELSE emaEligibleOf(raw)

\* variant: with EMA, only hotkeys with a positive raw weight get their EMA value
minerWeightsOf_eligibleOnly(raw, hotkeys, ema, withEma) ==
  LET zeros == [i \in 1..Len(hotkeys) |-> <<hotkeys[i], Zero>>]
  IN  IF ~hasPositiveEmissionOf(raw) THEN <<>>
      ELSE IF withEma
        THEN putAll(zeros, SelectSeq(nextEmaOf(raw, ema, withEma),
                                     LAMBDA e : aboveEpsilon(e[2]) /\ Has(emaEligibleOf(raw), e[1])))
      ELSE putAll(zeros, emaEligibleOf(raw))

\* lines 135-173 : the weights handed to setWeightsOnSubtensor
minerWeightsOf(raw, hotkeys, ema, withEma) ==
  LET zeros == [i \in 1..Len(hotkeys) |-> <<hotkeys[i], Zero>>]
  IN  IF ~hasPositiveEmissionOf(raw) THEN <<>>
      ELSE IF withEma
        THEN putAll(zeros, SelectSeq(nextEmaOf(raw, ema, withEma),
                                     LAMBDA e : aboveEpsilon(e[2])))
      ELSE putAll(zeros, emaEligibleOf(raw))

\* lines 47-59, with EMA_ALPHA as configured
updateEmaWith(alpha, prev, curr) ==
  LET keys == unionKeys(prev, curr)
      safe(v) == IF isFinite(v) THEN v ELSE Zero
      nextOf(k) == FAdd(FMul(alpha, safe(GetOr(curr, k, Zero))),
                        FMul(FSub(One, alpha), safe(GetOr(prev, k, Zero))))
  IN  [i \in 1..Len(keys) |->
         <<keys[i], IF isFinite(nextOf(keys[i])) THEN nextOf(keys[i]) ELSE Zero>>]

\* lines 135-173, with EMA_ALPHA as configured
nextEmaWith(alpha, raw, ema, withEma) ==
  IF hasPositiveEmissionOf(raw) /\ withEma THEN updateEmaWith(alpha, ema, emaEligibleOf(raw))
  ELSE ema

\* variant: every positive value is kept
aboveEpsilonOf_positive(w, eps) == isFinite(w) /\ w[1] > 0

\* isFinite(w) && w > EMA_EPSILON, for an EMA_EPSILON of the form 1 / eps[2]
aboveEpsilonOf(w, eps) == isFinite(w) /\ w[1] > 0 /\ (w[2] \div w[1]) < eps[2]

\* lines 135-173, with EMA_ALPHA and EMA_EPSILON as configured
minerWeightsWith(alpha, eps, raw, hotkeys, ema, withEma) ==
  LET zeros == [i \in 1..Len(hotkeys) |-> <<hotkeys[i], Zero>>]
  IN  IF ~hasPositiveEmissionOf(raw) THEN <<>>
      ELSE IF withEma
        THEN putAll(zeros, SelectSeq(nextEmaWith(alpha, raw, ema, withEma),
                                     LAMBDA e : aboveEpsilonOf(e[2], eps)))
      ELSE putAll(zeros, emaEligibleOf(raw))

(***************************************************************************)
(* State                                                                   *)
(***************************************************************************)
VARIABLES
  scPc,            \* scaling: "off", "input", "scaled" or "done"
  scWeights,       \* scaling: the weights object (hotkey -> float)
  scAddressToUid,  \* scaling: the addressToUid object (hotkey -> uid)
  scBurn,          \* scaling: burnPercentage
  scOut            \* scaling: the vector built by setWeightsOnSubtensor

scaleVars == <<scPc, scWeights, scAddressToUid, scBurn, scOut>>

VARIABLES
  plPc,            \* allocator: "off", "input" or "done"
  plVariant,       \* allocator: "reserved" or "chainSplit"
  plPositions,     \* allocator: the positions
  plTicks,         \* allocator: currentTickPerPool
  plAlphas,        \* allocator: subnetAlphaPrices
  plR0,            \* allocator: reservedZeroSubnetShare
  plR106,          \* allocator: reservedSubnet106Share
  plOut            \* allocator: the returned poolWeights

poolVars == <<plPc, plVariant, plPositions, plTicks, plAlphas, plR0, plR106, plOut>>

VARIABLES
  emPc,            \* scorer: "off", "input" or "done"
  emPositions,     \* scorer: the positions
  emTicks,         \* scorer: currentTickPerPool
  emPoolWeights,   \* scorer: poolWeights
  emReward,        \* scorer: totalReward
  emOut            \* scorer: the returned NFTEmissionResult[]

emitVars == <<emPc, emPositions, emTicks, emPoolWeights, emReward, emOut>>

VARIABLES
  pc,              \* runValidator's position: "idle", "fetched", "weights" or "send"
  runs,            \* the runs started so far
  useEma,          \* CONFIG.VALIDATOR.USE_EMA
  registry,        \* the hotkeys registered on the subnet, hotkey -> UID
  emaWeights,      \* global.__sn106EmaWeights
  hotkeyToUid,     \* the map this run fetched
  minerWeightsRaw, \* this run's emissions per miner
  minerWeights,    \* this run's policy-applied weights
  extrinsic,       \* the vector this run passes to set_weights
  historyLen,      \* the records of weights/weights_history.json
  extrinsicCalls,  \* the calls of tx.signAndSend so far
  txHashes,        \* the transaction hashes signAndSend returned so far
  outcome          \* how the last run ended: <<"none" | "complete" | "logged" | "escaped", thrown by>>

runVars == <<pc, runs, useEma, registry, emaWeights, hotkeyToUid, minerWeightsRaw,
             minerWeights, extrinsic, historyLen, extrinsicCalls, txHashes, outcome>>

VARIABLES
  emaAlpha,        \* CONFIG.VALIDATOR.EMA_ALPHA
  emaEpsilon,      \* CONFIG.VALIDATOR.EMA_EPSILON
  emaUpdates       \* the assignments of global.__sn106EmaWeights so far

cfgVars == <<emaAlpha, emaEpsilon, emaUpdates>>

VARIABLES
  schVariant,      \* scheduler: "off", "timeout" (validator/index.ts) or "interval"
  schActive,       \* scheduler: calls of runValidator that have not returned
  schTimers,       \* scheduler: armed timers
  schDelay,        \* scheduler: minutes the armed timer was set to (0: none armed)
  schStarted,      \* scheduler: calls of runValidator so far
  schEnded,        \* scheduler: calls of runValidator that returned
  schOutcome       \* scheduler: how the last returned call ended

schedVars == <<schVariant, schActive, schTimers, schDelay, schStarted, schEnded, schOutcome>>

VARIABLES
  client,          \* substrate client: the fields of the SubtensorAPIClient singleton
  clPc,            \* substrate client: where each caller's initialize(wsUrl) stands
  clArg,           \* substrate client: the wsUrl argument of each caller's call
  clAwaits,        \* substrate client: the caller whose connectionPromise a caller awaits
  clTimers,        \* substrate client: armed reconnection timers
  clBg,            \* substrate client: endpoints of the _connect calls made by those timers
  clCalls,         \* substrate client: calls of initialize so far
  clLosses         \* substrate client: connection losses so far

clientVars == <<client, clPc, clArg, clAwaits, clTimers, clBg, clCalls, clLosses>>

VARIABLES
  chPc,            \* chain adapters: "off", or the step of the run that comes next
  chEnabled,       \* chain adapters: CONFIG.getEnabledChains()
  chFailed,        \* chain adapters: the chains whose adapter failed, per kind of fetch
  chPositions,     \* chain adapters: positions (index.ts:72)
  chActivePools,   \* chain adapters: activePools (index.ts:77)
  chTicks          \* chain adapters: currentTickPerPool (index.ts:104)

chainVars == <<chPc, chEnabled, chFailed, chPositions, chActivePools, chTicks>>

VARIABLES
  nmPc,            \* normalizer: "off", "input" or "done"
  nmWeights,       \* normalizer: the weights object passed to normalizeWeights
  nmOut            \* normalizer: what the call returned, or that it threw

normVars == <<nmPc, nmWeights, nmOut>>

sideVars == <<schedVars, clientVars, chainVars, normVars>>

extVars == <<cfgVars, sideVars>>

vars == <<scaleVars, poolVars, emitVars, runVars, extVars>>

(***************************************************************************)
(* Bounds and input domains                                                *)
(***************************************************************************)
MaxMiners == 3     \* registered hotkeys in a scaling input
MaxUid == 3        \* UIDs are 0..MaxUid

HotkeyName(i) == <<"hk", i>>

\* a hotkey that is not registered in the hotkey-to-UID map
StrayHotkey == <<"hk", 0>>

\* raw float weights: zero, positive, or not a number
FloatInputs == {Zero, One, Int2F(2), NaN}

BurnPercentages == {0, 23, 50, 100}

InjectiveSeqs(S, n) == {q \in [1..n -> S] : \A i, j \in 1..n : i # j => q[i] # q[j]}

\* the UIDs other than the burn UID come in ascending or in descending order
Monotone(q) ==
  LET nz == {i \in 1..Len(q) : q[i] # 0}
  IN  \/ \A i, j \in nz : i < j => q[i] < q[j]
      \/ \A i, j \in nz : i < j => q[i] > q[j]

\* hotkey-to-UID objects of n hotkeys: distinct hotkeys, distinct UIDs, the
\* burn UID at any place or absent
UidMaps(n) ==
  {[i \in 1..n |-> <<HotkeyName(i), q[i]>>] :
     q \in {r \in InjectiveSeqs(0..MaxUid, n) : Monotone(r)}}

noVector == [ok |-> FALSE, uids |-> <<>>, scaled |-> <<>>, allWeightsZero |-> TRUE]

runOff ==
  /\ pc = "off" /\ runs = 0 /\ useEma = FALSE /\ registry = <<>> /\ emaWeights = <<>>
  /\ hotkeyToUid = <<>> /\ minerWeightsRaw = <<>> /\ minerWeights = <<>>
  /\ extrinsic = noVector /\ historyLen = 0
  /\ extrinsicCalls = 0 /\ txHashes = 0 /\ outcome = <<"none", "none">>

scaleOff ==
  /\ scPc = "off" /\ scWeights = <<>> /\ scAddressToUid = <<>> /\ scBurn = 0
  /\ scOut = noVector

poolOff ==
  /\ plPc = "off" /\ plVariant = "reserved" /\ plPositions = <<>> /\ plTicks = <<>>
  /\ plAlphas = <<>> /\ plR0 = Zero /\ plR106 = Zero /\ plOut = <<>>

emitOff ==
  /\ emPc = "off" /\ emPositions = <<>> /\ emTicks = <<>> /\ emPoolWeights = <<>>
  /\ emReward = One /\ emOut = <<>>

(***************************************************************************)
(* Specification SpecScale: setWeightsOnSubtensor's vector on any input    *)
(***************************************************************************)
\* the configuration defaults (environment.ts:16-17)
cfgOff == emaAlpha = EMA_ALPHA /\ emaEpsilon = Norm(1, EpsilonInverse) /\ emaUpdates = 0

schedOff ==
  /\ schVariant = "off" /\ schActive = 0 /\ schTimers = 0 /\ schDelay = 0
  /\ schStarted = 0 /\ schEnded = 0 /\ schOutcome = <<"none", "none">>

\* part_010:10-19 : the fields of a new SubtensorAPIClient
newClient ==
  [api |-> "null", provider |-> "null", wsUrl |-> "null", isInitialized |-> FALSE,
   isConnecting |-> FALSE, connectionPromise |-> 0, healthCheckInterval |-> FALSE,
   reconnectAttempts |-> 0]

clientOff ==
  /\ client = newClient /\ clPc = <<>> /\ clArg = <<>> /\ clAwaits = <<>>
  /\ clTimers = 0 /\ clBg = <<>> /\ clCalls = 0 /\ clLosses = 0

noFailures == [positions |-> {}, pools |-> {}, ticks |-> {}]

chainOff ==
  /\ chPc = "off" /\ chEnabled = {} /\ chFailed = noFailures
  /\ chPositions = <<>> /\ chActivePools = <<>> /\ chTicks = <<>>

normOff == nmPc = "off" /\ nmWeights = <<>> /\ nmOut = [thrown |-> FALSE, value |-> <<>>]

sideOff == schedOff /\ clientOff /\ chainOff /\ normOff

extOff == cfgOff /\ sideOff

InitScale ==
  /\ poolOff /\ emitOff /\ runOff /\ extOff
  /\ scPc = "input"
  /\ \E n \in 0..MaxMiners :
       /\ scAddressToUid \in UidMaps(n)
       /\ \E ws \in [1..n -> FloatInputs], stray \in {FALSE, n < MaxMiners} :
            scWeights = [i \in 1..n |-> <<HotkeyName(i), ws[i]>>]
                          \o (IF stray THEN <<<<StrayHotkey, One>>>> ELSE <<>>)
  /\ scBurn \in BurnPercentages
  /\ scOut = noVector

ScaleApply ==
  /\ scPc = "input"
  /\ scOut' = buildWeightVector(scWeights, scAddressToUid, scBurn)
  /\ scPc' = "done"
  /\ UNCHANGED <<scWeights, scAddressToUid, scBurn, poolVars, emitVars, runVars, extVars>>

\* the scaling step alone (setWeights.ts:65-167) on the vector of the
\* registered hotkeys' UIDs and weights
ScaleStep ==
  /\ scPc = "input"
  /\ LET entries == SelectSeq(scWeights, LAMBDA e : Has(scAddressToUid, e[1]))
     IN  scOut' = scaleToU16([i \in 1..Len(entries) |-> Get(scAddressToUid, entries[i][1])],
                             [i \in 1..Len(entries) |-> PosOrZero(entries[i][2])], scBurn)
  /\ scPc' = "scaled"
  /\ UNCHANGED <<scWeights, scAddressToUid, scBurn, poolVars, emitVars, runVars, extVars>>

NextScale == ScaleApply \/ ScaleStep

SpecScale == InitScale /\ [][NextScale]_vars


(***************************************************************************)
(* Specification SpecPool: the pool-weight allocators on any input         *)
(***************************************************************************)
MaxPoolPositions == 3   \* positions in an allocator input

PoolKeys == {<<"solana", 1>>, <<"ethereum", 1>>, <<"ethereum", 2>>}

SubnetIds == {0, 1, 2, 106}

\* reserved shares <<r0, r106>>: negative, inside [0, 1], above 1, and
\* together above 1
ReservedShares ==
  {<<Norm(-1, 2), Norm(3, 2)>>, <<Norm(3, 2), Norm(-1, 2)>>, <<Norm(1, 4), Norm(1, 4)>>,
   <<Norm(9, 10), Norm(1, 4)>>}

\* alpha prices <<of subnet 1, of subnet 2>>
AlphaPrices == {<<Zero, Zero>>, <<One, Zero>>, <<One, Int2F(2)>>}

\* the object with the keys of ks (a sequence) that are in present, with
\* the values given by f
RECURSIVE ObjOf(_, _, _)
ObjOf(ks, present, f) ==
  IF ks = <<>> THEN <<>>
  ELSE (IF Head(ks) \in present THEN <<<<Head(ks), f[Head(ks)]>>>> ELSE <<>>)
         \o ObjOf(Tail(ks), present, f)

PoolKeySeq == <<<<"solana", 1>>, <<"ethereum", 1>>, <<"ethereum", 2>>>>

\* a position of the allocator input: only its pool matters
PoolPosition(pool) ==
  [miner |-> HotkeyName(1), pool |-> pool, tickLower |-> 0, tickUpper |-> 1, liquidity |-> 1]

\* index.ts:106 : filterNetuids are the subnet ids of the tick map
filteredSubnetIds(currentTickPerPool) ==
  {currentTickPerPool[i][2].subnetId : i \in 1..Len(currentTickPerPool)}

InitPool ==
  /\ scaleOff /\ emitOff /\ runOff /\ extOff
  /\ plPc = "input"
  /\ plVariant \in {"reserved", "chainSplit"}
  /\ \E n \in 0..MaxPoolPositions : \E ps \in [1..n -> PoolKeys] :
       plPositions = [i \in 1..n |-> PoolPosition(ps[i])]
  /\ \E present \in SUBSET PoolKeys : \E sn \in [PoolKeys -> SubnetIds] :
       /\ \A k \in PoolKeys \ present : sn[k] = 0
       /\ plTicks = ObjOf(PoolKeySeq, present, [k \in PoolKeys |-> [tick |-> 0, subnetId |-> sn[k]]])
  \* the chain-split allocator gives no pool an alpha-weighted share, so one
  \* price table is enough for it
  /\ \E a \in AlphaPrices :
       /\ plVariant = "chainSplit" => a = <<Zero, Zero>>
       /\ plAlphas = <<<<1, a[1]>>, <<2, a[2]>>>>
  /\ \E r \in ReservedShares : plR0 = r[1] /\ plR106 = r[2]
  /\ plOut = <<>>

PoolApplyReserved ==
  /\ plPc = "input" /\ plVariant = "reserved"
  /\ plOut' = calculatePoolWeightsWithReservedPools(plPositions, plTicks, plAlphas,
                                                    filteredSubnetIds(plTicks), plR0, plR106)
  /\ plPc' = "done"
  /\ UNCHANGED <<plVariant, plPositions, plTicks, plAlphas, plR0, plR106, scaleVars, emitVars, runVars, extVars>>

PoolApplyChainSplit ==
  /\ plPc = "input" /\ plVariant = "chainSplit"
  /\ plOut' = calculatePoolWeightsChainSplit(plPositions, plTicks, plAlphas,
                                             filteredSubnetIds(plTicks), plR0, plR106)
  /\ plPc' = "done"
  /\ UNCHANGED <<plVariant, plPositions, plTicks, plAlphas, plR0, plR106, scaleVars, emitVars, runVars, extVars>>

NextPool == PoolApplyReserved \/ PoolApplyChainSplit

SpecPool == InitPool /\ [][NextPool]_vars

(***************************************************************************)
(* Specification SpecEmit: calculatePoolwiseNFTEmissions on any input      *)
(***************************************************************************)
MaxPositions == 2    \* positions in a scorer input

Ticks == {-1, 0, 1}

EmPools == <<<<"solana", 1>>, <<"ethereum", 1>>>>

\* the shapes <<tickLower, tickUpper, liquidity>> of a position: every range
\* over Ticks with liquidity 1, and one position without liquidity
Shapes ==
  {<<r[1], r[2], 1>> : r \in {q \in Ticks \X Ticks : q[1] <= q[2]}} \cup {<<0, 1, 0>>}

EmPosition(i, pool, shape) ==
  [miner |-> HotkeyName(i), pool |-> pool, tickLower |-> shape[1],
   tickUpper |-> shape[2], liquidity |-> shape[3]]

EmWeights == {Zero, Norm(1, 2)}

TotalRewards == {One, Int2F(2)}

InitEmit ==
  /\ scaleOff /\ poolOff /\ runOff /\ extOff
  /\ emPc = "input"
  /\ \E n \in 0..MaxPositions :
       \E pl \in [1..n -> Range(EmPools)], sh \in [1..n -> Shapes] :
         emPositions = [i \in 1..n |-> EmPosition(i, pl[i], sh[i])]
  /\ \E present \in SUBSET Range(EmPools) : \E t \in [Range(EmPools) -> Ticks] :
       /\ \A k \in Range(EmPools) \ present : t[k] = 0
       /\ emTicks = ObjOf(EmPools, present, [k \in Range(EmPools) |-> [tick |-> t[k], subnetId |-> 0]])
  /\ \E present \in {Range(EmPools), {EmPools[1]}} : \E w \in [Range(EmPools) -> EmWeights] :
       /\ \A k \in Range(EmPools) \ present : w[k] = Zero
       /\ emPoolWeights = ObjOf(EmPools, present, w)
  /\ emReward \in TotalRewards
  /\ emOut = <<>>

EmitApply ==
  /\ emPc = "input"
  /\ emOut' = calculatePoolwiseNFTEmissions(emPositions, emTicks, emPoolWeights, emReward)
  /\ emPc' = "done"
  /\ UNCHANGED <<emPositions, emTicks, emPoolWeights, emReward, scaleVars, poolVars, runVars, extVars>>

NextEmit == EmitApply

SpecEmit == InitEmit /\ [][NextEmit]_vars


(***************************************************************************)
(* Specification Spec: the validator's runs                                *)
(***************************************************************************)
MaxRuns == 2     \* runs of a behaviour

\* setWeights.ts:27
burnPercentage == 0

RunPool == <<"solana", 1>>

\* the subnet's registrations: none, one hotkey, two hotkeys; with and
\* without a hotkey at the burn UID
RunRegistries ==
  {<<>>,
   <<<<HotkeyName(1), 0>>>>,
   <<<<HotkeyName(1), 1>>>>,
   <<<<HotkeyName(1), 1>>, <<HotkeyName(2), 2>>>>,
   <<<<HotkeyName(2), 3>>, <<HotkeyName(1), 1>>>>,
   <<<<HotkeyName(1), 2>>, <<HotkeyName(2), 0>>>>}

\* what a hotkey holds in the pool: nothing, or one position of shape
\* <<tickLower, tickUpper, liquidity>>
RunShapes == {<<0, 1, 1>>, <<-1, 1, 1>>, <<0, 0, 1>>}

Holdings == RunShapes \cup {<<>>}

\* the objects made of some of the entries of obj, in its order
RECURSIVE SubObjects(_)
SubObjects(obj) ==
  IF obj = <<>> THEN {<<>>}
  ELSE LET rest == SubObjects(Tail(obj))
       IN  rest \cup {<<Head(obj)>> \o r : r \in rest}

\* getAllNFTPositions(hotkeys)
RECURSIVE positionsOf(_, _)
positionsOf(hotkeys, holding) ==
  IF hotkeys = <<>> THEN <<>>
  ELSE (IF holding[Head(hotkeys)] = <<>> THEN <<>>
        ELSE <<[miner |-> Head(hotkeys), pool |-> RunPool,
                tickLower |-> holding[Head(hotkeys)][1],
                tickUpper |-> holding[Head(hotkeys)][2],
                liquidity |-> holding[Head(hotkeys)][3]]>>)
         \o positionsOf(Tail(hotkeys), holding)

\* index.ts:109-130 : pool weights, emissions, per-miner sums
minerWeightsRawOf(positions, currentTickPerPool) ==
  LET poolWeights == calculatePoolWeightsChainSplit(positions, currentTickPerPool, <<>>,
                                                    filteredSubnetIds(currentTickPerPool),
                                                    Norm(9, 10), Norm(1, 10))
  IN  aggregateEmissions(
        calculatePoolwiseNFTEmissions(positions, currentTickPerPool, poolWeights, One))

Init ==
  /\ scaleOff /\ poolOff /\ emitOff /\ extOff
  /\ pc = "idle" /\ runs = 0
  /\ useEma \in BOOLEAN
  /\ registry \in RunRegistries
  /\ emaWeights = <<>> /\ hotkeyToUid = <<>> /\ minerWeightsRaw = <<>>
  /\ minerWeights = <<>> /\ extrinsic = noVector /\ historyLen = 0
  /\ extrinsicCalls = 0 /\ txHashes = 0 /\ outcome = <<"none", "none">>

\* index.ts:180-184 : the run's try block ends, or its catch logs the error
catchRun_rethrow(thrown) ==
  IF thrown = "none" THEN <<"complete", "none">> ELSE <<"escaped", thrown>>

catchRun(thrown) ==
  IF thrown = "none" THEN <<"complete", "none">> ELSE <<"logged", thrown>>

\* the state of weights/weights_history.json when a record is saved
LogDisk == {"ok", "unparsable", "unwritable"}

\* variant: a failed write is thrown to the caller
saveWeightDetails_throws(len, disk) ==
  [len |-> IF disk = "ok" THEN len + 1 ELSE IF disk = "unparsable" THEN 1 ELSE len,
   thrown |-> IF disk = "unwritable" THEN "saveWeightDetails" ELSE "none"]

\* setWeights.ts:203-261 : append a record; an unreadable file starts a fresh
\* array, and any error is caught and logged
saveWeightDetails(len, disk) ==
  [len |-> IF disk = "ok" THEN len + 1 ELSE IF disk = "unparsable" THEN 1 ELSE len,
   thrown |-> "none"]

\* index.ts:30 : subtensorClient.initialize throws; the run logs and ends
InitializeFails ==
  /\ pc = "idle" /\ runs < MaxRuns
  /\ runs' = runs + 1
  /\ outcome' = catchRun("initialize")
  /\ UNCHANGED <<pc, useEma, registry, emaWeights, hotkeyToUid, minerWeightsRaw,
                 minerWeights, extrinsic, historyLen, extrinsicCalls, txHashes,
                 scaleVars, poolVars, emitVars, extVars>>

\* index.ts:30-65 : the run starts and fetches the hotkey-to-UID map; UIDs
\* whose fetch failed are missing, and a failed fetch gives {}
FetchMap ==
  /\ pc = "idle" /\ runs < MaxRuns
  /\ runs' = runs + 1
  /\ hotkeyToUid' \in SubObjects(registry)
  /\ pc' = "fetched"
  /\ UNCHANGED <<useEma, registry, emaWeights, minerWeightsRaw, minerWeights, extrinsic,
                 historyLen, extrinsicCalls, txHashes, outcome,
                 scaleVars, poolVars, emitVars, extVars>>

\* index.ts:72-175 : positions, ticks, pool weights, emissions, policy
RunPipeline ==
  /\ pc = "fetched"
  /\ \E holding \in [Range(Keys(hotkeyToUid)) -> Holdings], hasTick \in BOOLEAN :
       LET positions == positionsOf(Keys(hotkeyToUid), holding)
           currentTickPerPool ==
             IF hasTick THEN <<<<RunPool, [tick |-> 0, subnetId |-> 0]>>>> ELSE <<>>
           raw == minerWeightsRawOf(positions, currentTickPerPool)
       IN  /\ minerWeightsRaw' = raw
           /\ emaWeights' = nextEmaOf(raw, emaWeights, useEma)
           /\ minerWeights' = minerWeightsOf(raw, Keys(hotkeyToUid), emaWeights, useEma)
  /\ pc' = "weights"
  /\ UNCHANGED <<runs, useEma, registry, hotkeyToUid, extrinsic, historyLen,
                 extrinsicCalls, txHashes, outcome, scaleVars, poolVars, emitVars, extVars>>

\* index.ts:72-103 : getAllNFTPositions or getCurrentTickPerPool throws; the
\* run logs and ends
PipelineThrows ==
  /\ pc = "fetched"
  /\ pc' = "idle" /\ outcome' = catchRun("pipeline")
  /\ hotkeyToUid' = <<>>
  /\ UNCHANGED <<runs, useEma, registry, emaWeights, minerWeightsRaw, minerWeights,
                 extrinsic, historyLen, extrinsicCalls, txHashes,
                 scaleVars, poolVars, emitVars, extVars>>

\* setWeights.ts:14-176 : the vector is built and handed to set_weights
BuildExtrinsic ==
  /\ pc = "weights"
  /\ extrinsic' = buildWeightVector(minerWeights, hotkeyToUid, burnPercentage)
  /\ extrinsic'.ok
  /\ pc' = "send"
  /\ UNCHANGED <<runs, useEma, registry, emaWeights, hotkeyToUid, minerWeightsRaw,
                 minerWeights, historyLen, extrinsicCalls, txHashes, outcome,
                 scaleVars, poolVars, emitVars, extVars>>

\* setWeights.ts:16, 38, 171 : initialize, the empty UID map or getHeader
\* throws before a vector reaches set_weights; setWeights.ts:194-197 logs and
\* rethrows, the run logs and ends
SetWeightsThrows ==
  /\ pc = "weights"
  /\ pc' = "idle"
  /\ outcome' = catchRun(IF buildWeightVector(minerWeights, hotkeyToUid, burnPercentage).ok
                           THEN "setWeights" ELSE "No UIDs available")
  /\ hotkeyToUid' = <<>> /\ minerWeightsRaw' = <<>> /\ minerWeights' = <<>>
  /\ UNCHANGED <<runs, useEma, registry, emaWeights, extrinsic, historyLen,
                 extrinsicCalls, txHashes, scaleVars, poolVars, emitVars, extVars>>

\* setWeights.ts:187-192 : signAndSend returns a hash, then saveWeightDetails
\* runs
SendOk ==
  /\ pc = "send"
  /\ extrinsicCalls' = extrinsicCalls + 1 /\ txHashes' = txHashes + 1
  /\ \E disk \in LogDisk :
       /\ historyLen' = saveWeightDetails(historyLen, disk).len
       /\ outcome' = catchRun(saveWeightDetails(historyLen, disk).thrown)
  /\ pc' = "idle" /\ extrinsic' = noVector
  /\ hotkeyToUid' = <<>> /\ minerWeightsRaw' = <<>> /\ minerWeights' = <<>>
  /\ UNCHANGED <<runs, useEma, registry, emaWeights, scaleVars, poolVars, emitVars, extVars>>

\* setWeights.ts:188, 194-197 : signAndSend throws; setWeightsOnSubtensor
\* logs and rethrows, the run logs and ends
SendFails ==
  /\ pc = "send"
  /\ extrinsicCalls' = extrinsicCalls + 1
  /\ outcome' = catchRun("signAndSend")
  /\ pc' = "idle" /\ extrinsic' = noVector
  /\ hotkeyToUid' = <<>> /\ minerWeightsRaw' = <<>> /\ minerWeights' = <<>>
  /\ UNCHANGED <<runs, useEma, registry, emaWeights, historyLen, txHashes,
                 scaleVars, poolVars, emitVars, extVars>>

Next ==
  \/ InitializeFails
  \/ FetchMap
  \/ RunPipeline
  \/ PipelineThrows
  \/ BuildExtrinsic
  \/ SetWeightsThrows
  \/ SendOk
  \/ SendFails

Spec == Init /\ [][Next]_vars

(***************************************************************************)
(* The scheduling of runs: validator/index.ts:203-223 re-arms a timer when   *)
(* a run has returned; the other version of the validator entry point        *)
(* (part_011:200-203) arms an interval once.                                 *)
(***************************************************************************)
MaxSchedRuns == 6

minMinutes == 10
maxMinutes == 30
VALIDATOR_INTERVAL_MINUTES == 20

\* what makes a run leave its try block
RunThrows == {"none", "initialize", "pipeline", "No UIDs available", "signAndSend"}

\* variant: scheduleNextRun is chained with then() on a run that completed
schedulesAfter_complete(o) == o[1] = "complete"

\* index.ts:215-218, 221-223 : finally() calls scheduleNextRun however the run ended
schedulesAfter(o) == TRUE

\* Math.floor(Math.random() * (maxMinutes - minMinutes + 1)) + minMinutes
randomMinutes == minMinutes..maxMinutes

InitSched ==
  /\ scaleOff /\ poolOff /\ emitOff /\ runOff /\ cfgOff /\ clientOff /\ chainOff /\ normOff
  /\ schVariant \in {"timeout", "interval"}
  /\ schActive = 1 /\ schStarted = 1 /\ schEnded = 0 /\ schOutcome = <<"none", "none">>
  /\ schTimers = (IF schVariant = "interval" THEN 1 ELSE 0)
  /\ schDelay = (IF schVariant = "interval" THEN VALIDATOR_INTERVAL_MINUTES ELSE 0)

\* index.ts:17-184 : a call of runValidator returns; with the timeout
\* scheduler its finally() callback arms the next timer (lines 206-219)
RunEnds ==
  /\ schVariant \in {"timeout", "interval"} /\ schActive > 0
  /\ \E thrown \in RunThrows :
       /\ schOutcome' = catchRun(thrown)
       /\ IF schVariant = "timeout" /\ schedulesAfter(catchRun(thrown))
            THEN /\ schTimers' = schTimers + 1
                 /\ schDelay' \in randomMinutes
            ELSE UNCHANGED <<schTimers, schDelay>>
  /\ schActive' = schActive - 1 /\ schEnded' = schEnded + 1
  /\ UNCHANGED <<schVariant, schStarted, scaleVars, poolVars, emitVars, runVars, cfgVars,
                 clientVars, chainVars, normVars>>

\* index.ts:214-218 : the timer set by scheduleNextRun fires and calls runValidator
TimeoutFires ==
  /\ schVariant = "timeout" /\ schTimers > 0 /\ schStarted < MaxSchedRuns
  /\ schTimers' = schTimers - 1 /\ schDelay' = 0
  /\ schActive' = schActive + 1 /\ schStarted' = schStarted + 1
  /\ UNCHANGED <<schVariant, schEnded, schOutcome, scaleVars, poolVars, emitVars, runVars,
                 cfgVars, clientVars, chainVars, normVars>>

\* part_011:201 : the interval ticks and calls runValidator
IntervalFires ==
  /\ schVariant = "interval" /\ schTimers > 0 /\ schStarted < MaxSchedRuns
  /\ schActive' = schActive + 1 /\ schStarted' = schStarted + 1
  /\ UNCHANGED <<schVariant, schTimers, schDelay, schEnded, schOutcome, scaleVars, poolVars,
                 emitVars, runVars, cfgVars, clientVars, chainVars, normVars>>

NextSched == RunEnds \/ TimeoutFires \/ IntervalFires

SpecSched == InitSched /\ [][NextSched]_vars

\* an armed timer of the event loop fires; a run need not return
SpecSchedLive == SpecSched /\ WF_vars(TimeoutFires) /\ WF_vars(IntervalFires)

(***************************************************************************)
(* SubtensorAPIClient (part_010): initialize(wsUrl) called by concurrent     *)
(* callers, one step per stretch of code between two awaits.                 *)
(***************************************************************************)
MaxClientCalls == 3
MaxLosses == 1
maxReconnectAttempts == 5

Callers == {1, 2}
Endpoints == {"ws://a", "ws://b"}

notClient == <<scaleVars, poolVars, emitVars, runVars, cfgVars, schedVars, chainVars, normVars>>

InitClient ==
  /\ scaleOff /\ poolOff /\ emitOff /\ runOff /\ cfgOff /\ schedOff /\ chainOff /\ normOff
  /\ client = newClient
  /\ clPc = [c \in Callers |-> "idle"] /\ clArg = [c \in Callers |-> "null"]
  /\ clAwaits = [c \in Callers |-> 0]
  /\ clTimers = 0 /\ clBg = <<>> /\ clCalls = 0 /\ clLosses = 0

\* lines 50-52 and 68-70 : isConnecting, connectionPromise, and _connect up to its await
startConnect(cl, c, wsUrl) ==
  [cl EXCEPT !.isConnecting = TRUE, !.connectionPromise = c, !.provider = wsUrl]

\* lines 100-120 : scheduleReconnect, as <<reconnectAttempts, timers>>
scheduleReconnect(attempts, timers) ==
  IF attempts >= maxReconnectAttempts THEN <<attempts, timers>>
  ELSE <<attempts + 1, timers + 1>>

\* lines 33-52 : initialize(wsUrl) up to its first await or its early return
Call(c, wsUrl) ==
  /\ clPc[c] = "idle" /\ clCalls < MaxClientCalls
  /\ clCalls' = clCalls + 1
  /\ clArg' = [clArg EXCEPT ![c] = wsUrl]
  /\ IF client.isInitialized /\ client.wsUrl = wsUrl
       THEN /\ clPc' = [clPc EXCEPT ![c] = "returned"]
            /\ UNCHANGED <<client, clAwaits>>
     ELSE IF client.isConnecting /\ client.connectionPromise # 0
       THEN /\ clPc' = [clPc EXCEPT ![c] = "awaitPromise"]
            /\ clAwaits' = [clAwaits EXCEPT ![c] = client.connectionPromise]
            /\ UNCHANGED client
     ELSE IF client.api # "null" /\ client.wsUrl # wsUrl
       THEN /\ clPc' = [clPc EXCEPT ![c] = "discApi"]
            /\ client' = [client EXCEPT !.healthCheckInterval = FALSE]
            /\ UNCHANGED clAwaits
     ELSE /\ clPc' = [clPc EXCEPT ![c] = "connecting"]
          /\ client' = startConnect(client, c, wsUrl)
          /\ UNCHANGED clAwaits
  /\ UNCHANGED <<clTimers, clBg, clLosses, notClient>>

\* lines 195-204 : api.disconnect() settled; disconnect goes on to the provider
DiscApiDone(c) ==
  /\ clPc[c] = "discApi"
  /\ IF client.provider # "null"
       THEN /\ clPc' = [clPc EXCEPT ![c] = "discProvider"]
            /\ client' = [client EXCEPT !.api = "null"]
       ELSE /\ clPc' = [clPc EXCEPT ![c] = "connecting"]
            /\ client' = startConnect([client EXCEPT !.api = "null", !.isInitialized = FALSE,
                                                     !.wsUrl = "null"], c, clArg[c])
  /\ UNCHANGED <<clArg, clAwaits, clTimers, clBg, clCalls, clLosses, notClient>>

\* lines 206-216 and 49-52 : provider.disconnect() settled, disconnect
\* returns and initialize starts the new connection
DiscProviderDone(c) ==
  /\ clPc[c] = "discProvider"
  /\ clPc' = [clPc EXCEPT ![c] = "connecting"]
  /\ client' = startConnect([client EXCEPT !.provider = "null", !.isInitialized = FALSE,
                                           !.wsUrl = "null"], c, clArg[c])
  /\ UNCHANGED <<clArg, clAwaits, clTimers, clBg, clCalls, clLosses, notClient>>

\* the callers awaiting c's connectionPromise are resumed with its result
resumed(pcs, c, to) ==
  [d \in Callers |-> IF d = c THEN to
                     ELSE IF pcs[d] = "awaitPromise" /\ clAwaits[d] = c THEN "resume_" \o to
                     ELSE pcs[d]]

\* lines 71-74 and 55-58 : ApiPromise.create resolved, _connect and initialize return
ConnectOk(c) ==
  /\ clPc[c] = "connecting"
  /\ client' = [client EXCEPT !.api = clArg[c], !.wsUrl = clArg[c], !.isInitialized = TRUE,
                              !.reconnectAttempts = 0, !.isConnecting = FALSE,
                              !.connectionPromise = 0, !.healthCheckInterval = TRUE]
  /\ clPc' = resumed(clPc, c, "returned")
  /\ UNCHANGED <<clArg, clAwaits, clTimers, clBg, clCalls, clLosses, notClient>>

\* lines 93-96 and 59-63 : ApiPromise.create rejected, _connect and initialize throw
ConnectFails(c) ==
  /\ clPc[c] = "connecting"
  /\ client' = [client EXCEPT !.isConnecting = FALSE, !.connectionPromise = 0]
  /\ clPc' = resumed(clPc, c, "threw")
  /\ UNCHANGED <<clArg, clAwaits, clTimers, clBg, clCalls, clLosses, notClient>>

\* lines 40-43 : the awaited connectionPromise settled; return, or throw its error
AwaitDone(c) ==
  /\ clPc[c] \in {"resume_returned", "resume_threw"}
  /\ clPc' = [clPc EXCEPT ![c] = IF clPc[c] = "resume_returned" THEN "returned" ELSE "threw"]
  /\ clAwaits' = [clAwaits EXCEPT ![c] = 0]
  /\ UNCHANGED <<client, clArg, clTimers, clBg, clCalls, clLosses, notClient>>

\* the caller goes on after its call returned or threw
CallerGoesOn(c) ==
  /\ clPc[c] \in {"returned", "threw"}
  /\ clPc' = [clPc EXCEPT ![c] = "idle"]
  /\ UNCHANGED <<client, clArg, clAwaits, clTimers, clBg, clCalls, clLosses, notClient>>

\* lines 80-90, 133-141 : the provider reports 'disconnected' or 'error', or
\* the health check fails
ConnectionLost ==
  /\ client.isInitialized /\ clLosses < MaxLosses
  /\ clLosses' = clLosses + 1
  /\ client' = [client EXCEPT !.isInitialized = FALSE,
                  !.reconnectAttempts = scheduleReconnect(client.reconnectAttempts, clTimers)[1]]
  /\ clTimers' = scheduleReconnect(client.reconnectAttempts, clTimers)[2]
  /\ UNCHANGED <<clPc, clArg, clAwaits, clBg, clCalls, notClient>>

\* lines 110-113 and 68-70 : a reconnection timer fires
ReconnectFires ==
  /\ clTimers > 0
  /\ clTimers' = clTimers - 1
  /\ IF client.wsUrl # "null" /\ ~client.isInitialized
       THEN /\ client' = [client EXCEPT !.provider = client.wsUrl]
            /\ clBg' = Append(clBg, client.wsUrl)
       ELSE UNCHANGED <<client, clBg>>
  /\ UNCHANGED <<clPc, clArg, clAwaits, clCalls, clLosses, notClient>>

\* lines 71-74 and 114 : the reconnection's ApiPromise.create resolved
BgConnectOk ==
  /\ Len(clBg) > 0
  /\ client' = [client EXCEPT !.api = Head(clBg), !.wsUrl = Head(clBg), !.isInitialized = TRUE,
                              !.reconnectAttempts = 0, !.healthCheckInterval = TRUE]
  /\ clBg' = Tail(clBg)
  /\ UNCHANGED <<clPc, clArg, clAwaits, clTimers, clCalls, clLosses, notClient>>

\* lines 93-96 and 115-118 : the reconnection's ApiPromise.create rejected
BgConnectFails ==
  /\ Len(clBg) > 0
  /\ client' = [client EXCEPT
                  !.reconnectAttempts = scheduleReconnect(client.reconnectAttempts, clTimers)[1]]
  /\ clTimers' = scheduleReconnect(client.reconnectAttempts, clTimers)[2]
  /\ clBg' = Tail(clBg)
  /\ UNCHANGED <<clPc, clArg, clAwaits, clCalls, clLosses, notClient>>

NextClient ==
  \/ \E c \in Callers, wsUrl \in Endpoints : Call(c, wsUrl)
  \/ \E c \in Callers : DiscApiDone(c)
  \/ \E c \in Callers : DiscProviderDone(c)
  \/ \E c \in Callers : ConnectOk(c)
  \/ \E c \in Callers : ConnectFails(c)
  \/ \E c \in Callers : AwaitDone(c)
  \/ \E c \in Callers : CallerGoesOn(c)
  \/ ConnectionLost
  \/ ReconnectFires
  \/ BgConnectOk
  \/ BgConnectFails

SpecClient == InitClient /\ [][NextClient]_vars

(***************************************************************************)
(* The chain adapters of a run: chains/index.ts getAllNFTPositions,          *)
(* listActivePools and getCurrentTickPerPool, and the Solana adapter under   *)
(* them. chains/index.ts has branches for three chains; getEnabledChains     *)
(* (environment.ts:83-88) returns solana only.                               *)
(***************************************************************************)
Chains == <<"solana", "ethereum", "base">>

EnabledChainSets == {{"solana"}, {"solana", "ethereum", "base"}}

\* the active pools of each chain, as <<poolId, subnetId>>
PoolsOn(c) ==
  IF c = "solana" THEN <<<<"A", 0>>, <<"B", 106>>>>
  ELSE IF c = "ethereum" THEN <<<<"E", 0>>>>
  ELSE <<<<"F", 106>>>>

\* the positions the registered hotkeys hold on a chain: one in each pool
PositionsOn(c) == [i \in 1..Len(PoolsOn(c)) |-> [chain |-> c, pool |-> PoolsOn(c)[i][1]]]

\* the ticks of a chain's pools, of the allowed ones when a set is given
TicksOn(c, allowed) ==
  LET kept == SelectSeq(PoolsOn(c), LAMBDA p : allowed = {} \/ p[1] \in allowed)
  IN  [i \in 1..Len(kept) |-> <<kept[i][1], [tick |-> 0, subnetId |-> kept[i][2]]>>]

RECURSIVE Concat(_)
Concat(ss) == IF Len(ss) = 0 THEN <<>> ELSE Head(ss) \o Concat(Tail(ss))

\* variant: no handler, the error goes to the caller
tryCatch_none(result, empty) == result

\* try { ... } catch { log; use the empty result } and promise.catch(() => empty)
tryCatch(result, empty) == IF result.thrown THEN [thrown |-> FALSE, value |-> empty] ELSE result

\* a call of a DEX or chain fetcher that rejects when its RPC calls fail
fetch(fails, value) == [thrown |-> fails, value |-> IF fails THEN <<>> ELSE value]

\* ticks.ts:314-353 : Solana getAllNFTPositions
getSolanaPositions(fails) == tryCatch(fetch(fails, PositionsOn("solana")), <<>>)

\* ticks.ts:362-400 : Solana getCurrentTickPerPool
getSolanaTicks(fails, allowed) == tryCatch(fetch(fails, TicksOn("solana", allowed)), <<>>)

\* ticks.ts:405-412 : Solana listActivePools
getSolanaActivePools(fails) == tryCatch(fetch(fails, PoolsOn("solana")), <<>>)

\* the chains of Chains that are enabled, in the order they are processed
enabledInOrder(enabled) == SelectSeq(Chains, LAMBDA c : c \in enabled)

\* the first error thrown by a sequence of awaited calls, if any
anyThrown(results) == \E i \in 1..Len(results) : results[i].thrown

\* chains/index.ts:15-104 : getAllNFTPositions for a non-empty hotkey list
getAllNFTPositions(enabled, failing) ==
  LET cs == enabledInOrder(enabled)
      results == [i \in 1..Len(cs) |->
                    IF cs[i] = "solana" THEN tryCatch(getSolanaPositions(cs[i] \in failing), <<>>)
                    ELSE tryCatch(fetch(cs[i] \in failing, PositionsOn(cs[i])), <<>>)]
  IN  [thrown |-> anyThrown(results),
       value |-> IF anyThrown(results) THEN <<>>
                 ELSE Concat([i \in 1..Len(cs) |-> results[i].value])]

\* chains/index.ts:319-333 : listActivePools
listActivePools(enabled, failing) ==
  LET got == IF "solana" \in enabled
               THEN tryCatch(getSolanaActivePools("solana" \in failing), <<>>)
               ELSE [thrown |-> FALSE, value |-> <<>>]
  IN  [thrown |-> got.thrown,
       value |-> [i \in 1..Len(got.value) |->
                    [chain |-> "solana", poolId |-> got.value[i][1], subnetId |-> got.value[i][2]]]]

\* index.ts:78-98 : selectedPools, as <<chain, poolId>> keys
selectedPoolsOf(activePools) ==
  {<<activePools[i].chain, activePools[i].poolId>> :
     i \in {j \in 1..Len(activePools) :
              \/ activePools[j].subnetId = 0
              \/ activePools[j].subnetId = 106 /\ activePools[j].chain \in {"ethereum", "base"}}}

\* chains/index.ts:134-141 : the allowed pool ids of a chain; {} stands for undefined
allowedOn(c, allowedPools) == {k[2] : k \in {x \in allowedPools : x[1] = c}}

\* chains/index.ts:117-242 : getCurrentTickPerPool
getCurrentTickPerPool(enabled, allowedPools, failing) ==
  LET cs == enabledInOrder(enabled)
      results == [i \in 1..Len(cs) |->
                    IF cs[i] = "solana"
                      THEN getSolanaTicks(cs[i] \in failing, allowedOn(cs[i], allowedPools))
                    ELSE tryCatch(fetch(cs[i] \in failing,
                                        TicksOn(cs[i], allowedOn(cs[i], allowedPools))), <<>>)]
      prefixed(i) == [j \in 1..Len(results[i].value) |->
                        <<<<cs[i], results[i].value[j][1]>>, results[i].value[j][2]>>]
  IN  [thrown |-> anyThrown(results),
       value |-> IF anyThrown(results) THEN <<>>
                 ELSE Concat([i \in 1..Len(cs) |-> prefixed(i)])]

notChains == <<scaleVars, poolVars, emitVars, runVars, cfgVars, schedVars, clientVars, normVars>>

InitChains ==
  /\ scaleOff /\ poolOff /\ emitOff /\ runOff /\ cfgOff /\ schedOff /\ clientOff /\ normOff
  /\ chPc = "positions" /\ chEnabled \in EnabledChainSets /\ chFailed = noFailures
  /\ chPositions = <<>> /\ chActivePools = <<>> /\ chTicks = <<>>

\* index.ts:70-73 : positions = await getAllNFTPositions(hotkeys)
ChainsFetchPositions ==
  /\ chPc = "positions"
  /\ \E failing \in SUBSET chEnabled :
       LET got == getAllNFTPositions(chEnabled, failing)
       IN  /\ chFailed' = [chFailed EXCEPT !.positions = failing]
           /\ chPositions' = got.value
           /\ chPc' = IF got.thrown THEN "aborted" ELSE "pools"
  /\ UNCHANGED <<chEnabled, chActivePools, chTicks, notChains>>

\* index.ts:75-84 : activePools = await listActivePools()
ChainsListPools ==
  /\ chPc = "pools"
  /\ \E failing \in SUBSET (chEnabled \cap {"solana"}) :
       LET got == listActivePools(chEnabled, failing)
       IN  /\ chFailed' = [chFailed EXCEPT !.pools = failing]
           /\ chActivePools' = got.value
           /\ chPc' = IF got.thrown THEN "aborted" ELSE "ticks"
  /\ UNCHANGED <<chEnabled, chPositions, chTicks, notChains>>

\* index.ts:88-105 : currentTickPerPool = await getCurrentTickPerPool(selectedPools)
ChainsFetchTicks ==
  /\ chPc = "ticks"
  /\ \E failing \in SUBSET chEnabled :
       LET got == getCurrentTickPerPool(chEnabled, selectedPoolsOf(chActivePools), failing)
       IN  /\ chFailed' = [chFailed EXCEPT !.ticks = failing]
           /\ chTicks' = got.value
           /\ chPc' = IF got.thrown THEN "aborted" ELSE "pipeline"
  /\ UNCHANGED <<chEnabled, chPositions, chActivePools, notChains>>

\* index.ts:107-178 : the weights are computed from the fetched data and
\* setWeightsOnSubtensor is called
ChainsSubmit ==
  /\ chPc = "pipeline"
  /\ chPc' = "submit"
  /\ UNCHANGED <<chEnabled, chFailed, chPositions, chActivePools, chTicks, notChains>>

NextChains == ChainsFetchPositions \/ ChainsListPools \/ ChainsFetchTicks \/ ChainsSubmit

SpecChains == InitChains /\ [][NextChains]_vars

(***************************************************************************)
(* normalizeWeights (ticks.ts:521-537), applied to a weights object.         *)
(***************************************************************************)
MaxNormKeys == 3

NormScale == 10000

\* the values of a weights object: zero, shares that sum to 1, and the
\* inputs of the unit test (part_001:885)
NormValues == {Zero, Norm(1, 4), Norm(1, 2), Norm(33333, 100000), Norm(33334, 100000), One}

NormKeys == <<"a", "b", "c", "d">>

NormInputs ==
  UNION {{[i \in 1..n |-> <<NormKeys[i], vs[i]>>] : vs \in [1..n -> NormValues]} : n \in 0..MaxNormKeys}

\* ticks.ts:521-537 : thrown = TRUE stands for the TypeError of
\* remainders[i][0] when i reaches remainders.length
normalizeWeights(weights) ==
  LET scaled == [i \in 1..Len(weights) |-> FMul(weights[i][2], Int2F(NormScale))]
      floored == [i \in 1..Len(weights) |-> Floor(scaled[i])]
      remainder == NormScale - SumInt(floored)
      remainders == [i \in 1..Len(weights) |-> FSub(scaled[i], Int2F(Floor(scaled[i])))]
      bumped == [i \in 1..Len(weights) |->
                   floored[i] + (IF SortedPos(remainders, i) < remainder THEN 1 ELSE 0)]
  IN  IF remainder > Len(weights) THEN [thrown |-> TRUE, value |-> <<>>]
      ELSE [thrown |-> FALSE,
            value |-> [i \in 1..Len(weights) |-> <<weights[i][1], Norm(bumped[i], NormScale)>>]]

notNorm == <<scaleVars, poolVars, emitVars, runVars, cfgVars, schedVars, clientVars, chainVars>>

InitNorm ==
  /\ scaleOff /\ poolOff /\ emitOff /\ runOff /\ cfgOff /\ schedOff /\ clientOff /\ chainOff
  /\ nmPc = "input" /\ nmWeights \in NormInputs
  /\ nmOut = [thrown |-> FALSE, value |-> <<>>]

\* a call normalizeWeights(weights)
NormApply ==
  /\ nmPc = "input"
  /\ nmOut' = normalizeWeights(nmWeights)
  /\ nmPc' = "done"
  /\ UNCHANGED <<nmWeights, notNorm>>

NextNorm == NormApply

SpecNorm == InitNorm /\ [][NextNorm]_vars

(***************************************************************************)
(* Properties                                                              *)
(***************************************************************************)
(* The EMA store over many runs, under the configured EMA_ALPHA and        *)
(* EMA_EPSILON.  Hotkey 1 is in range in the first run only; hotkeys 2 and *)
(* 3 are in range together or not at all.                                  *)
(***************************************************************************)
MaxEmaRuns == 5   \* runs of a behaviour of SpecEma

\* <<EMA_ALPHA, EMA_EPSILON>> as set in the environment (environment.ts:16-17):
\* the default EMA_EPSILON, and two settings under which a value decays below
\* EMA_EPSILON within the runs of a behaviour
EmaConfigs ==
  {<<Norm(1, 2), Norm(1, EpsilonInverse)>>, <<Norm(1, 2), Norm(1, 10)>>,
   <<Norm(1, 2), Norm(1, 4)>>}

EmaRegistry == <<<<HotkeyName(1), 1>>, <<HotkeyName(2), 2>>, <<HotkeyName(3), 3>>>>

\* what the three hotkeys hold in a run
EmaHolding(first, others) ==
  [h \in Range(Keys(EmaRegistry)) |->
     IF h = HotkeyName(1) THEN (IF first THEN <<0, 1, 1>> ELSE <<>>)
     ELSE IF ~others THEN <<>>
     ELSE IF h = HotkeyName(2) THEN <<0, 1, 1>> ELSE <<0, 1, 2>>]

InitEma ==
  /\ scaleOff /\ poolOff /\ emitOff
  /\ pc = "idle" /\ runs = 0 /\ useEma = TRUE /\ registry = EmaRegistry
  /\ emaWeights = <<>> /\ hotkeyToUid = <<>> /\ minerWeightsRaw = <<>>
  /\ minerWeights = <<>> /\ extrinsic = noVector /\ historyLen = 0
  /\ extrinsicCalls = 0 /\ txHashes = 0 /\ outcome = <<"none", "none">>
  /\ \E c \in EmaConfigs : emaAlpha = c[1] /\ emaEpsilon = c[2]
  /\ emaUpdates = 0
  /\ sideOff

\* index.ts:17-185 : one whole run that submits its vector
EmaRun ==
  /\ pc = "idle" /\ runs < MaxEmaRuns
  /\ \E others \in BOOLEAN :
       LET positions == positionsOf(Keys(registry), EmaHolding(runs = 0, others))
           raw == minerWeightsRawOf(positions, <<<<RunPool, [tick |-> 0, subnetId |-> 0]>>>>)
           weights == minerWeightsWith(emaAlpha, emaEpsilon, raw, Keys(registry),
                                       emaWeights, useEma)
       IN  /\ minerWeightsRaw' = raw
           /\ emaWeights' = nextEmaWith(emaAlpha, raw, emaWeights, useEma)
           /\ emaUpdates' = IF hasPositiveEmissionOf(raw) /\ useEma
                              THEN emaUpdates + 1 ELSE emaUpdates
           /\ minerWeights' = weights
           /\ extrinsic' = buildWeightVector(weights, registry, burnPercentage)
  /\ runs' = runs + 1 /\ hotkeyToUid' = registry
  /\ extrinsicCalls' = extrinsicCalls + 1 /\ txHashes' = txHashes + 1
  /\ historyLen' = saveWeightDetails(historyLen, "ok").len
  /\ outcome' = catchRun("none")
  /\ UNCHANGED <<pc, useEma, registry, emaAlpha, emaEpsilon, scaleVars, poolVars, emitVars,
                 sideVars>>

NextEma == EmaRun

SpecEma == InitEma /\ [][NextEma]_vars

(***************************************************************************)
\* sum of the rationals f[x], x in S
RECURSIVE SumFn(_, _)
SumFn(f, S) ==
  IF S = {} THEN Zero
  ELSE LET x == CHOOSE y \in S : TRUE IN FAdd(f[x], SumFn(f, S \ {x}))

Clamp(x, lo, hi) == IF FLt(x, lo) THEN lo ELSE IF FGt(x, hi) THEN hi ELSE x

\* a complete weight vector: parallel arrays of u16 weights that sum to
\* 65535 or are all 0
Complete(v) ==
  /\ Len(v.uids) = Len(v.scaled)
  /\ \A i \in 1..Len(v.scaled) : v.scaled[i] \in 0..65535
  /\ \/ SumInt(v.scaled) = 65535
     \/ \A i \in 1..Len(v.scaled) : v.scaled[i] = 0

\* C1: every vector a run passes to set_weights is complete (equal lengths,
\* weights integers in 0..65535, sum exactly 65535 unless every weight is
\* 0), and a run that passes none submits nothing.
C1_CompleteVector ==
  /\ pc = "send" => (extrinsic.ok /\ Complete(extrinsic) /\ Len(extrinsic.uids) > 0)
  /\ pc # "send" => extrinsic = noVector

C1_Witness ==
  /\ pc = "send" /\ Len(extrinsic.uids) = 3 /\ SumInt(extrinsic.scaled) = 65535
  /\ \E i, j \in 1..3 : 0 < extrinsic.scaled[i] /\ extrinsic.scaled[i] < extrinsic.scaled[j]

\* the scaling law at the burn UID and on the sum
ScalingLaw(v, burn) ==
  LET b == IndexOf(v.uids, 0)
  IN  /\ b > 0
      /\ \A i \in 1..Len(v.scaled) : v.scaled[i] \in 0..65535
      /\ SumInt(v.scaled) = 65535
      /\ v.scaled[b] = ((2 * burn * 65535) + 100) \div 200
      /\ (burn = 100 => \A i \in 1..Len(v.scaled) : i # b => v.scaled[i] = 0)
      /\ (burn = 0 => v.scaled[b] = 0)

UidsOf(map) == {map[i][2] : i \in 1..Len(map)}

C4_PositiveWeightNotZeroed ==
  (pc = "send" /\ ~useEma
     /\ \E i \in 1..Len(minerWeightsRaw) :
          Has(hotkeyToUid, minerWeightsRaw[i][1]) /\ isPositive(minerWeightsRaw[i][2])) =>
    /\ SumInt(extrinsic.scaled) = 65535
    /\ \E i \in 1..Len(extrinsic.scaled) : extrinsic.scaled[i] > 0

\* the tick range of a scored position contains the tick it was scored at
InRange(r) == r.pos.tickLower <= r.currentTick /\ r.currentTick <= r.pos.tickUpper

\* C5: a position with positive liquidity scores above 0 exactly when
\* tickLower <= currentTick <= tickUpper, and a position whose pool's current
\* tick is outside its range has score 0 and emission 0.
C5_InRangeDecidesScore ==
  emPc = "done" =>
    \A i \in 1..Len(emOut) :
      LET r == emOut[i] IN
      Has(emTicks, r.pos.pool) =>
        /\ r.pos.liquidity > 0 => (FGt(r.score, Zero) <=> InRange(r))
        /\ ~InRange(r) => (r.score = Zero /\ r.emission = Zero)

\* C6: a position whose pool has no entry in the tick map gets emission 0.
C6_MissingTickZeroEmission ==
  emPc = "done" =>
    \A i \in 1..Len(emOut) :
      ~Has(emTicks, emOut[i].pos.pool) => emOut[i].emission = Zero

\* C7: per pool, the emissions sum to poolWeights[pool] * totalReward when
\* some score of the pool is positive, and to 0 otherwise.
C7_PoolAdditive ==
  emPc = "done" =>
    \A pool \in {emPositions[i].pool : i \in 1..Len(emPositions)} :
      LET idx == {i \in 1..Len(emOut) : emOut[i].pos.pool = pool}
          total == SumFn([i \in idx |-> emOut[i].emission], idx)
      IN  IF \E i \in idx : FGt(emOut[i].score, Zero)
            THEN total = FMul(GetOr(emPoolWeights, pool, Zero), emReward)
            ELSE total = Zero

\* C8: every pool weight lies in [0, 1] and the weights sum to at most 1,
\* whatever the reserved shares are.
C8_WeightsBounded ==
  plPc = "done" =>
    /\ \A i \in 1..Len(plOut) : FGe(plOut[i][2], Zero) /\ FLe(plOut[i][2], One)
    /\ FLe(SumF(Values(plOut)), One)

\* the pools of the allocator input that have tick data, per subnet
PlPools == {plPositions[i].pool : i \in 1..Len(plPositions)}
             \cap {plTicks[i][1] : i \in 1..Len(plTicks)}

PlSubnet(pool) == Get(plTicks, pool).subnetId

PlPoolsOf(subnetId) == {pool \in PlPools : PlSubnet(pool) = subnetId}

PlWeight(pool) == GetOr(plOut, pool, Zero)

PlR0 == IF PlPoolsOf(0) # {} THEN Clamp(plR0, Zero, One) ELSE Zero

PlR106 == IF PlPoolsOf(106) # {} THEN Clamp(plR106, Zero, FSub(One, PlR0)) ELSE Zero

PlOthers == {pool \in PlPools : PlSubnet(pool) \notin {0, 106}}

PlAlpha(subnetId) == GetOr(plAlphas, subnetId, Zero)

PlOtherSubnets == {PlSubnet(pool) : pool \in PlOthers}

PlSumAlpha == SumFn([sn \in PlOtherSubnets |-> PlAlpha(sn)], PlOtherSubnets)

PlRemaining == FSub(FSub(One, PlR0), PlR106)

RawPositive(raw) == \E i \in 1..Len(raw) : raw[i][2][1] > 0 /\ raw[i][2][2] > 0

\* the step of a run that computes the raw weights and applies the policy
PolicyStep == pc = "fetched" /\ pc' = "weights"

\* C11: a run in which no raw miner weight is positive leaves the EMA store
\* as it was: the store changes only in the policy step of a run that has a
\* positive raw weight.
C11_NoPositiveKeepsEma ==
  [][emaWeights' # emaWeights => (PolicyStep /\ RawPositive(minerWeightsRaw'))]_vars

C11_Witness ==
  /\ pc = "weights" /\ useEma /\ Len(hotkeyToUid) > 0
  /\ ~RawPositive(minerWeightsRaw) /\ emaWeights # <<>>

\* the hotkeys whose raw weight is positive and finite
EligibleKeys(raw) == {raw[i][1] : i \in {j \in 1..Len(raw) : raw[j][2][1] > 0 /\ raw[j][2][2] > 0}}

\* C12: in a run with a positive raw weight and EMA enabled the store is
\* replaced by next, whose keys are those of prev and of eligible, with
\* next[k] = alpha * eligible.get(k, 0) + (1 - alpha) * prev.get(k, 0).
C12_EmaUpdate ==
  [][(PolicyStep /\ useEma /\ RawPositive(minerWeightsRaw')) =>
       LET prev == emaWeights
           next == emaWeights'
           eligible == EligibleKeys(minerWeightsRaw')
       IN  /\ Range(Keys(next)) = Range(Keys(prev)) \cup eligible
           /\ Len(next) = Cardinality(Range(Keys(next)))
           /\ \A k \in Range(Keys(next)) :
                Get(next, k) =
                  FAdd(FMul(Norm(3, 10),
                            IF k \in eligible THEN Get(minerWeightsRaw', k) ELSE Zero),
                       FMul(Norm(7, 10), GetOr(prev, k, Zero)))]_vars

C12_Witness ==
  /\ pc = "weights" /\ useEma /\ RawPositive(minerWeightsRaw)
  /\ Len(emaWeights) = 2
  /\ \E k \in Range(Keys(emaWeights)) : k \notin EligibleKeys(minerWeightsRaw)
  /\ \E k \in EligibleKeys(minerWeightsRaw) :
       Get(emaWeights, k) = FMul(Norm(3, 10), Get(minerWeightsRaw, k))

\* the scaling example: uids = [1, 2, 3], floats = [2, 1, 1], burn 50
ExampleS6 ==
  /\ scPc \in {"scaled", "done"} /\ scBurn = 50
  /\ scAddressToUid = <<<<HotkeyName(1), 1>>, <<HotkeyName(2), 2>>, <<HotkeyName(3), 3>>>>
  /\ scWeights = <<<<HotkeyName(1), Int2F(2)>>, <<HotkeyName(2), One>>, <<HotkeyName(3), One>>>>

\* C20: the example yields UID 0 prepended with 32768, and 16384, 8192,
\* 8191 over UIDs 1, 2, 3 in some order, total 65535.
C20_Example ==
  ExampleS6 =>
    /\ scOut.uids = <<0, 1, 2, 3>> /\ scOut.scaled[1] = 32768
    /\ SumInt(scOut.scaled) = 65535
    /\ {scOut.scaled[2], scOut.scaled[3], scOut.scaled[4]} = {16384, 8192, 8191}

\* C20, amended: the miner targets are 16383.5, 8191.75 and 8191.75, the
\* floors leave two units and the two largest fractions belong to UIDs 2
\* and 3, so the vector is 32768, 16383, 8192, 8192.
C20_ExampleAmended ==
  ExampleS6 =>
    /\ scOut.uids = <<0, 1, 2, 3>>
    /\ scOut.scaled = <<32768, 16383, 8192, 8192>>

C20_Witness == ExampleS6 /\ scPc = "scaled" /\ SumInt(scOut.scaled) = 65535

\* a step that ends a run before signAndSend was called
RunEndsBeforeSend == pc # "send" /\ pc' = "idle" /\ (pc # "idle" \/ runs' = runs + 1)

\* C15: a run that fails before the extrinsic is sent, the empty
\* hotkey-to-UID map included, ends without a call of set_weights and with
\* its error logged by runValidator; an empty map never reaches set_weights.
C15_ErrorsEndRun ==
  /\ [](pc = "send" => Len(hotkeyToUid) > 0)
  /\ [][RunEndsBeforeSend =>
          (extrinsicCalls' = extrinsicCalls /\ txHashes' = txHashes /\ outcome'[1] = "logged")]_vars

C15_Witness ==
  /\ pc = "idle" /\ runs = 1 /\ extrinsicCalls = 0
  /\ outcome = <<"logged", "No UIDs available">>

\* C17: the log grows only in the step in which signAndSend returned a hash;
\* a failed submission writes nothing, and whatever happens to the log file
\* the run of a returned hash ends complete.
C17_LogAfterHash ==
  [][/\ historyLen' # historyLen => (pc = "send" /\ txHashes' = txHashes + 1)
     /\ txHashes' = txHashes + 1 => outcome' = <<"complete", "none">>]_vars

C17_Witness ==
  /\ pc = "idle" /\ txHashes = 2 /\ historyLen = 1 /\ outcome[1] = "complete"

\* (1 - alpha)^n
RECURSIVE DecayFactor(_, _)
DecayFactor(alpha, n) == IF n = 0 THEN One ELSE FMul(FSub(One, alpha), DecayFactor(alpha, n - 1))

\* the least number of decays after which a value of at most 1 is at most
\* eps; MaxEmaRuns + 2 when a behaviour is too short for it
DecayRuns(alpha, eps) ==
  LET enough == {n \in 0..(MaxEmaRuns + 1) : FLe(DecayFactor(alpha, n), eps)}
  IN  IF enough = {} THEN MaxEmaRuns + 2
      ELSE CHOOSE n \in enough : \A m \in enough : n <= m

\* the hotkey that holds a position in the first run only
Leaver == HotkeyName(1)

\* the u16 weight the last submission gives to a uid (0 when it is left out)
SubmittedTo(uid) ==
  IF IndexOf(extrinsic.uids, uid) = 0 THEN 0
  ELSE extrinsic.scaled[IndexOf(extrinsic.uids, uid)]

\* a run in which the hotkey has no positive raw weight while the store holds it
LeaverAbsentRun ==
  /\ runs' = runs + 1 /\ Has(emaWeights, Leaver)
  /\ Leaver \notin EligibleKeys(minerWeightsRaw')

\* C13 as stated: a hotkey whose raw weight is zero in a run has its EMA value
\* multiplied by (1 - alpha) in that run, whatever the other raw weights are
C13_DecayEveryRun ==
  [][LeaverAbsentRun =>
       Get(emaWeights', Leaver) = FMul(FSub(One, emaAlpha), Get(emaWeights, Leaver))]_vars

\* C13 amended: a hotkey whose raw weight is zero in a run has its EMA value
\* multiplied by (1 - alpha) when some raw weight of the run is positive and
\* left as it is when none is; once the store was updated DecayRuns times
\* without the hotkey, its EMA value is at most epsilon and it gets weight 0
\* in the policy weights and in the submitted vector
C13_DecayInUpdatingRuns ==
  /\ [][LeaverAbsentRun =>
          /\ Has(emaWeights', Leaver)
          /\ Get(emaWeights', Leaver) =
               IF RawPositive(minerWeightsRaw')
                 THEN FMul(FSub(One, emaAlpha), Get(emaWeights, Leaver))
                 ELSE Get(emaWeights, Leaver)
          /\ emaUpdates' = IF RawPositive(minerWeightsRaw') THEN emaUpdates + 1 ELSE emaUpdates]_vars
  /\ [](emaUpdates - 1 >= DecayRuns(emaAlpha, emaEpsilon) =>
          /\ Has(emaWeights, Leaver)
          /\ FLe(Get(emaWeights, Leaver), emaEpsilon)
          /\ FGt(Get(emaWeights, Leaver), Zero)
          /\ GetOr(minerWeights, Leaver, Zero) = Zero
          /\ SubmittedTo(Get(registry, Leaver)) = 0)

\* the store was updated DecayRuns times without the hotkey, the last run
\* gave positive weight to the other hotkeys and none to it
C13_Witness ==
  /\ emaUpdates - 1 = DecayRuns(emaAlpha, emaEpsilon)
  /\ RawPositive(minerWeightsRaw) /\ Has(emaWeights, Leaver)
  /\ FLe(Get(emaWeights, Leaver), emaEpsilon)
  /\ SubmittedTo(Get(registry, Leaver)) = 0
  /\ \E u \in {2, 3} : SubmittedTo(u) > 0

\* C14: no two validator runs overlap, a run never starts while a previous
\* run is still in progress
C14_NoOverlap == [](schActive <= 1) /\ [][schStarted' = schStarted + 1 => schActive = 0]_vars

\* a call of runValidator returns under the timeout scheduler
TimeoutRunEnds == schVariant = "timeout" /\ schEnded' = schEnded + 1

\* C16: after every run that returns, whether it completed or logged an
\* error, exactly one next run is scheduled (one timer armed, nothing else
\* running or armed) and that run eventually starts
C16_NextRunScheduled ==
  /\ [][TimeoutRunEnds => (schTimers' = 1 /\ schActive' = 0 /\ schDelay' \in randomMinutes)]_vars
  /\ [](schVariant = "timeout" => schActive + schTimers = 1)
  /\ \A n \in 1..(MaxSchedRuns - 1) :
       (schVariant = "timeout" /\ schEnded = n) ~> (schStarted = n + 1 /\ schActive = 1)

\* a run that ended in a logged error was followed by the start of the next run
C16_Witness ==
  /\ schVariant = "timeout" /\ schOutcome[1] = "logged"
  /\ schEnded = 2 /\ schStarted = 3 /\ schActive = 1 /\ schTimers = 0

\* a call of initialize returns without error
Returns(c) == clPc[c] # "returned" /\ clPc'[c] = "returned"

\* C18: whenever a call initialize(e) returns without error the client is
\* ready and connected to e, whether or not another connection attempt was
\* in progress when the call was made
C18_ReturnsConnected ==
  [][\A c \in Callers :
       Returns(c) => /\ client'.isInitialized /\ client'.api # "null"
                     /\ client'.api = clArg'[c] /\ client'.wsUrl = clArg'[c]]_vars

\* the positions of the fetched list that are on chain c
PositionsOf(c) == SelectSeq(chPositions, LAMBDA p : p.chain = c)

\* the pool ids of chain c that the fetched ticks cover
TickPoolsOf(c) == {chTicks[i][1][2] : i \in {j \in 1..Len(chTicks) : chTicks[j][1][1] = c}}

\* the pool ids of chain c whose ticks a working adapter returns
TickPoolsExpected(c) ==
  LET allowed == allowedOn(c, selectedPoolsOf(chActivePools))
  IN  {PoolsOn(c)[i][1] : i \in {j \in 1..Len(PoolsOn(c)) : allowed = {} \/ PoolsOn(c)[j][1] \in allowed}}

\* C19: a failure of one chain adapter (positions, ticks or the active-pool
\* list) gives an empty result for that chain and never aborts the run: the
\* data of the chains that did not fail is complete and the run goes on to
\* the submission step
C19_AdapterFailIsolated ==
  /\ [](chPc # "aborted")
  /\ [](chPc \in {"pools", "ticks", "pipeline", "submit"} =>
          \A c \in chEnabled :
            PositionsOf(c) = IF c \in chFailed.positions THEN <<>> ELSE PositionsOn(c))
  /\ [](chPc \in {"ticks", "pipeline", "submit"} =>
          Len(chActivePools) = IF "solana" \in chFailed.pools THEN 0 ELSE Len(PoolsOn("solana")))
  /\ [](chPc \in {"pipeline", "submit"} =>
          \A c \in chEnabled :
            TickPoolsOf(c) = IF c \in chFailed.ticks THEN {} ELSE TickPoolsExpected(c))
  /\ [][(chPc = "positions" => chPc' = "pools") /\ (chPc = "pools" => chPc' = "ticks")
        /\ (chPc = "ticks" => chPc' = "pipeline") /\ (chPc = "pipeline" => chPc' = "submit")]_vars

\* the run reached the submission step although the Ethereum position fetch
\* and the Solana and Base tick fetches failed, with the data of the others
C19_Witness ==
  /\ chPc = "submit"
  /\ chFailed.positions = {"ethereum"} /\ chFailed.ticks = {"solana", "base"}
  /\ Len(PositionsOf("solana")) = 2 /\ Len(PositionsOf("base")) = 1
  /\ Len(PositionsOf("ethereum")) = 0
  /\ TickPoolsOf("ethereum") = {"E"} /\ TickPoolsOf("solana") = {}

\* C21: for any map of non-negative weights, normalizeWeights returns
\* without an error one value per input key, each a multiple of 1e-4, and
\* the values sum to exactly 1
C21_NormalizedSumsToOne ==
  nmPc = "done" =>
    /\ ~nmOut.thrown
    /\ Keys(nmOut.value) = Keys(nmWeights)
    /\ \A i \in 1..Len(nmOut.value) : FMul(nmOut.value[i][2], Int2F(NormScale))[2] = 1
    /\ SumF(Values(nmOut.value)) = One

\* the float weight a run hands over for a registered hotkey (setWeights.ts:22-25
\* drops the entries of hotkeys that are not in the map)
SubmitFloat(h) == Get(SelectSeq(minerWeights, LAMBDA e : Has(hotkeyToUid, e[1])), h)

C23_OneResultPerPosition ==
  emPc = "done" =>
    /\ Len(emOut) = Len(emPositions)
    /\ \A i \in 1..Len(emPositions) :
         Cardinality({j \in 1..Len(emOut) : emOut[j].pos = emPositions[i]}) = 1

\* 1 / (1 + |center - currentTick|) of a scored position
CenterWeightOf(r) ==
  LET diff == FSub(Norm(r.pos.tickLower + r.pos.tickUpper, 2), Int2F(r.currentTick))
  IN  FDiv(One, FAdd(One, <<Abs(diff[1]), diff[2]>>))

\* C24: a position with tickLower = tickUpper is scored as if its width were
\* 1: its score is the finite value centerWeight * liquidity, and the
\* emissions of the positions of its pool are finite
C24_ZeroWidthAsOne ==
  emPc = "done" =>
    \A i \in 1..Len(emOut) :
      emOut[i].pos.tickLower = emOut[i].pos.tickUpper =>
        /\ isFinite(emOut[i].score)
        /\ emOut[i].score = FMul(CenterWeightOf(emOut[i]), Int2F(emOut[i].pos.liquidity))
        /\ \A j \in 1..Len(emOut) :
             emOut[j].pos.pool = emOut[i].pos.pool => isFinite(emOut[j].emission)

\* the vector the scaling step received: the UIDs and weights of the
\* registered hotkeys, in the order the weights list them
stepEntries == SelectSeq(scWeights, LAMBDA e : Has(scAddressToUid, e[1]))

\* the miners' targets of the vector the scaling step returned
stepTargets ==
  LET absent == \A i \in 1..Len(stepEntries) : Get(scAddressToUid, stepEntries[i][1]) # burnUid
      floats0 == [i \in 1..Len(stepEntries) |-> PosOrZero(stepEntries[i][2])]
      floatWeights == IF absent THEN <<Zero>> \o floats0 ELSE floats0
      burnIdx == IndexOf(scOut.uids, burnUid)
      minerIndices == SelectSeq([i \in 1..Len(scOut.uids) |-> i], LAMBDA i : i # burnIdx)
  IN  [indices |-> minerIndices,
       targets |-> minerFloatTargetsOf(floatWeights, minerIndices,
                                       U16Max - desiredBurnIntOf(scBurn), FALSE)]

\* every non-burn UID holds the floor of its target or one unit more
FloorOrNext ==
  \A j \in 1..Len(stepTargets.indices) :
    scOut.scaled[stepTargets.indices[j]] - Floor(stepTargets.targets[j]) \in {0, 1}

\* the extra units sit at the largest fractional remainders, the lower UID
\* first among equal remainders
ExtrasByRemainderThenUid ==
  LET t == stepTargets
      n == Len(t.indices)
      frac(j) == FSub(t.targets[j], Int2F(Floor(t.targets[j])))
      uid(j) == scOut.uids[t.indices[j]]
      before(k, j) == FLt(frac(j), frac(k)) \/ (frac(k) = frac(j) /\ uid(k) < uid(j))
      extras == (U16Max - desiredBurnIntOf(scBurn)) - SumInt([j \in 1..n |-> Floor(t.targets[j])])
  IN  \A j \in 1..n :
        (scOut.scaled[t.indices[j]] = Floor(t.targets[j]) + 1)
          <=> Cardinality({k \in 1..n : before(k, j)}) < extras

\* C25: in the scaling step every non-burn UID receives floor(target) or
\* floor(target) + 1 units, the extra units go one each to the largest
\* fractional remainders, and equal remainders are served in ascending UID
\* order, whatever the order of the UIDs in the input.
C25_TiesByAscendingUid ==
  (scPc = "scaled" /\ ~scOut.allWeightsZero) => (FloorOrNext /\ ExtrasByRemainderThenUid)

\* C26: every key of the tick map getCurrentTickPerPool returns belongs to
\* the set of allowed pools it was given, also when that set is empty or
\* holds no pool of an enabled chain: such a chain contributes no ticks.
C26_TicksWithinAllowed ==
  chPc \in {"pipeline", "submit"} =>
    \A i \in 1..Len(chTicks) : chTicks[i][1] \in selectedPoolsOf(chActivePools)

\* the _connect calls that have started and not settled: the ones of
\* initialize and the ones of the reconnection timers
connectsInFlight == Cardinality({c \in DOMAIN clPc : clPc[c] = "connecting"}) + Len(clBg)

\* C27: at any time at most one connection attempt of the client is in
\* flight: initialize calls, the timers armed by scheduleReconnect and
\* disconnect never run two _connect calls concurrently.
C27_OneConnectInFlight == connectsInFlight <= 1

\* a step in which a run fails after its policy step: setWeightsOnSubtensor
\* throws before sending, or signAndSend throws
FailsAfterPolicy == pc \in {"weights", "send"} /\ pc' = "idle" /\ outcome'[1] = "logged"

\* C28: the EMA store is written before the submission and is not rolled
\* back: when set_weights fails or throws before sending in a run with a
\* positive raw weight, the store keeps the values that run wrote, each
\* eligible hotkey holding at least alpha times its raw weight, so the next
\* run starts from them whether or not the submission succeeded.
C28_EmaKeptOnFailure ==
  [][(FailsAfterPolicy /\ useEma /\ RawPositive(minerWeightsRaw)) =>
       /\ emaWeights' = emaWeights
       /\ \A k \in EligibleKeys(minerWeightsRaw) :
            /\ Has(emaWeights', k)
            /\ FGe(Get(emaWeights', k), FMul(EMA_ALPHA, Get(minerWeightsRaw, k)))]_vars

C28_Witness ==
  /\ pc = "idle" /\ runs = 2 /\ useEma /\ txHashes = 0 /\ extrinsicCalls = 1
  /\ outcome = <<"logged", "signAndSend">>
  /\ \E i \in 1..Len(emaWeights) : isPositive(emaWeights[i][2])

\* the weight the vector v holds at the burn UID
burnWeightOf(v) == v.scaled[IndexOf(v.uids, burnUid)]

\* C29: in the vector setWeightsOnSubtensor builds, the burn UID 0 holds
\* exactly desiredBurnInt (0 on the all-zero path) whatever float weight the
\* hotkey registered at UID 0 has, and the other UIDs share the remaining
\* 65535 - desiredBurnInt units: all 65535 when burn_percentage is 0.
C29_BurnUidGetsBurnShare ==
  (scPc = "done" /\ scOut.ok) =>
    IF scOut.allWeightsZero THEN burnWeightOf(scOut) = 0
    ELSE /\ burnWeightOf(scOut) = desiredBurnIntOf(scBurn)
         /\ SumInt(scOut.scaled) - burnWeightOf(scOut) = U16Max - desiredBurnIntOf(scBurn)

C29_Witness ==
  /\ scPc = "done" /\ scOut.ok /\ ~scOut.allWeightsZero /\ scBurn = 0
  /\ \E i \in 1..Len(scWeights) :
       /\ Has(scAddressToUid, scWeights[i][1])
       /\ Get(scAddressToUid, scWeights[i][1]) = burnUid
       /\ scWeights[i][2] = Int2F(2)
  /\ burnWeightOf(scOut) = 0 /\ SumInt(scOut.scaled) = U16Max

\* C30: in every vector handed to set_weights the UIDs are pairwise
\* distinct, UID 0 is among them, there is one weight per UID, and the UIDs
\* are exactly those of the run's hotkey-to-UID map together with UID 0: no
\* UID of an unregistered hotkey, and no registered UID missing.
C30_UidsAreTheMapPlusBurn ==
  pc = "send" =>
    /\ extrinsic.ok
    /\ Len(extrinsic.scaled) = Len(extrinsic.uids)
    /\ \A i, j \in 1..Len(extrinsic.uids) : i # j => extrinsic.uids[i] # extrinsic.uids[j]
    /\ burnUid \in Range(extrinsic.uids)
    /\ Range(extrinsic.uids) = UidsOf(hotkeyToUid) \cup {burnUid}

C30_Witness ==
  /\ pc = "send" /\ useEma /\ RawPositive(minerWeightsRaw)
  /\ Len(hotkeyToUid) = 1 /\ burnUid \notin UidsOf(hotkeyToUid)
  /\ Len(extrinsic.uids) = 2
  /\ \E i \in 1..Len(emaWeights) :
       ~Has(hotkeyToUid, emaWeights[i][1]) /\ aboveEpsilon(emaWeights[i][2])

====
